---- MODULE Spec2Model ----
(***************************************************************************)
(* Beam transfer engine: the sender's segment planner and segment tasks    *)
(* (beam_transfer/sender.py) and the receiver's connection handlers,       *)
(* TransferState and segment tasks (beam_transfer/receiver.py).            *)
(*                                                                         *)
(* Scheduling model: one asyncio event loop per endpoint.  The code        *)
(* between two suspension points of a coroutine is one atomic action.      *)
(***************************************************************************)
EXTENDS Integers, Sequences, FiniteSets, TLC

(***************************************************************************)
(* Bounds of the model (sizes are scaled down: a byte is a number in      *)
(* Bytes, the 256 MiB multi-stream threshold is MultiStreamThreshold     *)
(* bytes, the chunk size is ChunkSize bytes).                              *)
(***************************************************************************)
MaxPlanSize == 24
MaxFloatErr == 1
MaxFileSize == 3
ChunkSize == 2
MultiStreamThreshold == 2
MaxTasks == 2
MaxWire == 2
MaxMembers == 2
MaxTarWire == 5
MaxBroadcasts == 2
MaxDatagrams == 3

\* TransferOptions.normalized: parallel_streams is clamped to 1..MaxStreams
MaxStreams == 4

Min(a, b) == IF a < b THEN a ELSE b
Max(a, b) == IF a > b THEN a ELSE b

RECURSIVE SumLengths(_)
SumLengths(segs) ==
    IF segs = <<>> THEN 0 ELSE Head(segs).length + SumLengths(Tail(segs))

(***************************************************************************)
(* FileSender._build_segments                                              *)
(***************************************************************************)
\* math.ceil(file_size / stream_count), or file_size when stream_count = 0.
\* The quotient is a float: for sizes above 2^53 it is the true quotient
\* rounded, which err stands for (err = 0: the division is exact).
CeilDiv(a, b, err) == IF b = 0 THEN a ELSE Max(0, ((a + b - 1) \div b) + err)

\* the loop of _build_segments: n segments of min(base, remaining) bytes each
RECURSIVE SegmentLoop(_, _, _, _)
SegmentLoop(n, base, remaining, offset) ==
    IF n = 0 THEN <<>>
    ELSE LET length == Min(base, remaining)
         IN  <<[start |-> offset, length |-> length]>>
             \o SegmentLoop(n - 1, base, remaining - length, offset + length)

\* a planner without the last segment's fix-up
FixLastMissing(segs, file_size) == segs

\* the last segment absorbs whatever the loop left over
FixLast(segs, file_size) ==
    IF segs = <<>> THEN segs
    ELSE LET last == segs[Len(segs)]
         IN  IF last.start + last.length < file_size
             THEN [segs EXCEPT ![Len(segs)] =
                      [start |-> last.start, length |-> file_size - last.start]]
             ELSE segs

BuildSegments(file_size, stream_count, err) ==
    FixLast(SegmentLoop(stream_count, CeilDiv(file_size, stream_count, err),
                        file_size, 0), file_size)

(***************************************************************************)
(* Keys, cipher and compression                                            *)
(***************************************************************************)
\* security.get_key_hash: SHA-256 of the key string (injective on the keys
\* of the model)
get_key_hash(key) == <<"sha256", key>>

\* str.strip().upper() of what the operator typed at the key prompt
StripUpper(typed) ==
    CASE typed = " abc123 " -> "ABC123"
      [] typed = "ABC123" -> "ABC123"
      [] typed = "abc123" -> "ABC123"
      [] typed = " ABC123 " -> "ABC123"
      [] typed = "zzz999" -> "ZZZ999"
      [] OTHER -> typed

\* str.strip().lower() of what the operator typed at the accept prompt
StripLower(typed) ==
    CASE typed = " Yes " -> "yes"
      [] typed = "Y" -> "y"
      [] typed = "N" -> "n"
      [] OTHER -> typed

\* a wire or file byte
Bytes == 0..3

\* bitwise exclusive or of two bytes
Xor(a, b) ==
    (((a % 2) + (b % 2)) % 2) + 2 * (((a \div 2) + (b \div 2)) % 2)

\* the keystream byte of the CTR cipher with nonce iv at stream position i
KeyStream(iv, i) == (iv + i) % 4

\* AESCTREncryptor.update, for encryption and decryption alike: the bytes of
\* data xor the keystream from position ctr on; length-preserving
CipherUpdate(data, iv, ctr) ==
    [i \in 1..Len(data) |-> Xor(data[i], KeyStream(iv, ctr + i - 1))]

\* zlib.compress: run-length code, one (byte, count) pair per run
RECURSIVE Compress(_)
Compress(chunk) ==
    IF chunk = <<>> THEN <<>>
    ELSE LET b == Head(chunk)
             rest == Compress(Tail(chunk))
         IN  IF rest # <<>> /\ rest[1] = b /\ rest[2] < 3
             THEN <<b, rest[2] + 1>> \o SubSeq(rest, 3, Len(rest))
             ELSE <<b, 1>> \o rest

\* whether zlib.decompress accepts the payload
Decompressible(payload) ==
    /\ Len(payload) % 2 = 0
    /\ \A i \in 1..Len(payload) : i % 2 = 0 => payload[i] > 0

\* zlib.decompress of a payload it accepts
RECURSIVE Decompress(_)
Decompress(payload) ==
    IF payload = <<>> THEN <<>>
    ELSE [i \in 1..payload[2] |-> payload[1]]
         \o Decompress(SubSeq(payload, 3, Len(payload)))

(***************************************************************************)
(* Wire formats                                                            *)
(***************************************************************************)
\* a stream that ended: readexactly raises IncompleteReadError
Eof == [kind |-> "eof", plain_len |-> 0, payload |-> <<>>]

\* a chunk frame: plain_len, payload_len = Len(payload), payload
Frame(n, w) == [kind |-> "frame", plain_len |-> n, payload |-> w]

\* struct.pack("!II", 0, 0)
Sentinel == Frame(0, <<>>)

\* the primary header as the receiver parses it; stream_count segments follow
Header(name, size, key_hash, flags, level, tid, segs) ==
    [filename |-> name, file_size |-> size, key_hash |-> key_hash,
     flags |-> flags, compression_level |-> level,
     stream_count |-> Len(segs), transfer_id |-> tid, segs |-> segs]

NoHeader == Header("", 0, <<"sha256", "">>, {}, 0, 0, <<>>)

\* StreamInfo entries of a header from sender-side segments; segment i
\* carries nonce i
WithIv(segs) ==
    [i \in 1..Len(segs) |->
        [iv |-> i, offset |-> segs[i].start, length |-> segs[i].length]]

(***************************************************************************)
(* Files                                                                   *)
(***************************************************************************)
\* handle.write(chunk) at position pos of a file: the file grows with zero
\* bytes up to pos when it is shorter
WriteAt(content, pos, chunk) ==
    LET n == Max(Len(content), pos + Len(chunk))
    IN  [i \in 1..n |->
            IF i > pos /\ i <= pos + Len(chunk) THEN chunk[i - pos]
            ELSE IF i <= Len(content) THEN content[i]
            ELSE 0]

\* how often each position of a file was written, after a write of n bytes
\* at pos
CountAt(writes, pos, n) ==
    LET m == Max(Len(writes), pos + n)
    IN  [i \in 1..m |->
            (IF i <= Len(writes) THEN writes[i] ELSE 0)
            + (IF i > pos /\ i <= pos + n THEN 1 ELSE 0)]

\* temp_file.truncate(file_size) of a freshly created file
Zeros(n) == [i \in 1..n |-> 0]

(***************************************************************************)
(* Paths of directory extraction: a name is a sequence of characters, a    *)
(* path the sequence of its components from the root                       *)
(***************************************************************************)
\* member.name.lstrip("./"): every leading character that is '.' or '/' goes
RECURSIVE LStripDotSlash(_)
LStripDotSlash(name) ==
    IF name # <<>> /\ name[1] \in {".", "/"}
    THEN LStripDotSlash(Tail(name))
    ELSE name

\* the components of a name between its '/' characters
RECURSIVE SplitName(_, _)
SplitName(name, word) ==
    IF name = <<>> THEN <<word>>
    ELSE IF name[1] = "/" THEN <<word>> \o SplitName(Tail(name), <<>>)
    ELSE SplitName(Tail(name), Append(word, name[1]))

\* os.path.join(base, name): an absolute name replaces the base
JoinPath(base, name) ==
    IF name # <<>> /\ name[1] = "/" THEN SplitName(name, <<>>)
    ELSE base \o SplitName(name, <<>>)

\* os.path.abspath of an absolute path: empty and "." components go, ".."
\* removes the component before it (and nothing at the root)
RECURSIVE NormPath(_, _)
NormPath(comps, done) ==
    IF comps = <<>> THEN done
    ELSE IF Head(comps) \in {<<>>, <<".">>} THEN NormPath(Tail(comps), done)
    ELSE IF Head(comps) = <<".", ".">>
    THEN NormPath(Tail(comps),
                  IF done = <<>> THEN done ELSE SubSeq(done, 1, Len(done) - 1))
    ELSE NormPath(Tail(comps), Append(done, Head(comps)))

\* path is base or lies below it
Within(base, path) ==
    /\ Len(path) >= Len(base)
    /\ SubSeq(path, 1, Len(base)) = base

\* the absolute path of a handler's target directory: download_dir "d",
\* and the resolved directory "t" in it
TargetBase == <<<<"d">>, <<"t">>>>

\* the absolute path of download_dir
DownloadBase == <<<<"d">>>>

\* the characters of a header's filename
FilenameChars(filename) ==
    CASE filename = "f" -> <<"f">>
      [] filename = "../f" -> <<".", ".", "/", "f">>
      [] filename = "/f" -> <<"/", "f">>
      [] OTHER -> <<>>

\* where os.path.join(self.download_dir, filename) lies on disk
FilePath(filename) ==
    NormPath(JoinPath(DownloadBase, FilenameChars(filename)), <<>>)

\* a join that accepts every target
SafeJoinUnchecked(base, member_name) ==
    [ok |-> TRUE, target |-> NormPath(JoinPath(base, member_name), <<>>)]

\* _safe_join: the normalised join, refused unless it is base_abs or starts
\* with base_abs + os.sep
SafeJoin(base, member_name) ==
    LET target == NormPath(JoinPath(base, member_name), <<>>)
    IN  [ok |-> Within(base, target), target |-> target]

(***************************************************************************)
(* State                                                                   *)
(***************************************************************************)
VARIABLES
    planSize,    \* planner: self.file_size
    planCount,   \* planner: the stream_count argument
    planErr,     \* planner: the rounding error of the float quotient
    planOut,     \* planner: the returned segments
    planDone,    \* planner: _build_segments has returned
    hdr,         \* receiver: hdr[p], the header parsed on primary connection p
    prim,        \* receiver: prim[p], position and locals of p's primary handler
    st,          \* receiver: st[p], the TransferState made by p's handler
    active,      \* receiver: _active_transfers, transfer id -> p (0: absent)
    task,        \* receiver: task[k], the k-th segment task created
    files,       \* receiver: the files under download_dir
    dirs,        \* receiver: the directories that exist
    auxClosed,   \* receiver: why the last auxiliary connection was closed
                 \* without a task ("": none was)
    worker,      \* receiver: worker[p], the TarExtractionWorker of handler p
    tree,        \* receiver: tree[p], what the worker of p created on disk
    snd,         \* sender: position and locals of _async_send_file
    stask,       \* sender: stask[i], the _send_stream task of segment i
    chan,        \* chan[i]: what the sender wrote on the connection of
                 \* segment i and the receiver has not read yet
    disc         \* sender: the discovery of FileSender.transfer, with the
                 \* datagrams on their way to its socket

planVars == <<planSize, planCount, planErr, planOut, planDone>>

tarVars == <<worker, tree>>

recvVars == <<hdr, prim, st, active, task, files, dirs, auxClosed, worker, tree>>

sndVars == <<snd, stask, chan, disc>>

vars == <<planSize, planCount, planErr, planOut, planDone,
          hdr, prim, st, active, task, files, dirs, auxClosed, worker, tree,
          snd, stask, chan, disc>>

Prims == {1, 2}
TaskIds == 1..MaxStreams
TransferIds == {1, 2}
\* the filenames a header may carry: a plain name, one with a ".."
\* component, and an absolute path
Filenames == {"f", "../f", "/f"}

\* a path below download_dir: <<name, 0>> is download_dir/name and
\* <<name, n>> is download_dir/name_n
Paths == {<<f, n>> : f \in Filenames, n \in 0..2}
DownloadDir == <<"", 0>>

NoError == <<0, "">>
NoFile == [exists |-> FALSE, content |-> <<>>, writes |-> <<>>]
NoState == [remaining_streams |-> 0, tasks |-> <<>>, done_event |-> FALSE,
            error |-> NoError, ahead |-> 0]
NoTask == [status |-> "none", owner |-> 0, stream |-> 0, conn |-> 0,
           remaining |-> 0, pos |-> 0, ctr |-> 0, close_writer |-> FALSE,
           cb |-> FALSE, exc |-> "", saw |-> FALSE, ended |-> 0]
NoPrim == [pc |-> "new", response |-> "", received_key |-> "", out |-> <<>>,
           target_dir |-> DownloadDir, ctr |-> 0, loop_ok |-> FALSE]

\* the None that ends a queue's data; the chunks put into a queue are
\* numbered from 1 in the order of the puts
NoneItem == 0

\* member and member_name are the locals of _extract_members: the name of
\* the member in hand and what lstrip made of it
NoWorker == [status |-> "none", queue |-> <<>>, n |-> 0, escaped |-> FALSE,
             put |-> 0, got |-> 0, member |-> <<>>, member_name |-> <<>>]

InitPlanIdle ==
    /\ planSize = 0
    /\ planCount = 1
    /\ planErr = 0
    /\ planOut = <<>>
    /\ planDone = FALSE

Streams == 0..(MaxStreams - 1)

\* TarStreamProducer before __init__: _thread, _queue (its chunks numbered
\* in the order tarfile writes them), _buffer, _finished, and the number
\* of chunks tarfile has written
NoProducer == [thread |-> "none", queue |-> <<>>, buffer |-> <<>>,
               finished |-> FALSE, written |-> 0]

NoSender == [pc |-> "idle", file |-> <<>>, enable_compression |-> FALSE,
             compression_level |-> 0, parallel_streams |-> 1,
             transfer_key |-> "", stream_count |-> 0, segments |-> <<>>,
             next_idx |-> 0, result |-> "", is_directory |-> FALSE,
             accept |-> "", final |-> "", closed |-> FALSE, lost |-> 0,
             tar_stream |-> NoProducer]
NoSendTask == [status |-> "none", remaining |-> 0, pos |-> 0, ctr |-> 0,
               eof |-> FALSE]

\* the hosts of the network; the sender runs on LocalIp, receivers on the
\* others.  disc.sent counts the datagrams sent to the sender's socket (at
\* most MaxDatagrams), disc.read is what its listener has read
LocalIp == "A"
ReceiverHosts == {"B", "C"}
Hosts == {LocalIp} \cup ReceiverHosts

NoDiscovery == [pc |-> "idle", rounds |-> 0, asked |-> {}, inbox |-> <<>>,
                sent |-> 0, read |-> <<>>, discovered |-> <<>>, receiver |-> "",
                returned |-> ""]

InitSenderIdle ==
    /\ snd = NoSender
    /\ stask = [i \in Streams |-> NoSendTask]
    /\ chan = [i \in Streams |-> <<>>]
    /\ disc = NoDiscovery

InitReceiver ==
    /\ hdr = [p \in Prims |-> NoHeader]
    /\ prim = [p \in Prims |-> NoPrim]
    /\ st = [p \in Prims |-> NoState]
    /\ active = [t \in TransferIds |-> 0]
    /\ task = [k \in TaskIds |-> NoTask]
    /\ files = [f \in Paths |-> NoFile]
    /\ dirs = {}
    /\ auxClosed = ""
    /\ worker = [p \in Prims |-> NoWorker]
    /\ tree = [p \in Prims |-> {}]

(***************************************************************************)
(* Receiver: FileReceiver._handle_primary_connection                       *)
(***************************************************************************)
compression_enabled(h) == "COMPRESS" \in h.flags /\ h.compression_level > 0
is_tar_archive(h) == "TAR_ARCHIVE" \in h.flags

\* os.path.exists
Exists(path) == path \in dirs \/ (path \in Paths /\ files[path].exists)

\* os.path.basename(name.rstrip(os.sep)) or "beam_transfer", for the names of
\* the model (none holds a separator)
Basename(name) == IF name = "" THEN "beam_transfer" ELSE name

\* FileReceiver._resolve_target_directory: the first of name, name_1, name_2,
\* ... that does not exist
ResolveTargetDirectory(name) ==
    LET base == Basename(name)
        free == {n \in 0..2 : ~Exists(<<base, n>>)}
    IN  <<base, CHOOSE n \in free : \A m \in free : n <= m>>

\* the index the next created task gets in the model
NextTask == 1 + Cardinality({k \in TaskIds : task[k].status # "none"})

\* asyncio.create_task(self._receive_stream(state, stream, ...)): the cipher
\* starts at counter 0, remaining at the segment's length, the file position
\* at the segment's offset; conn is the connection the task reads
NewTask(p, index, close_writer, conn) ==
    [status |-> "running", owner |-> p, stream |-> index, conn |-> conn,
     remaining |-> hdr[p].segs[index + 1].length,
     pos |-> hdr[p].segs[index + 1].offset,
     ctr |-> 0, close_writer |-> close_writer, cb |-> FALSE, exc |-> "",
     saw |-> FALSE, ended |-> 0]

\* TransferState.__post_init__
NewState(h) ==
    [remaining_streams |-> h.stream_count, tasks |-> <<>>,
     done_event |-> FALSE, error |-> NoError, ahead |-> 0]

\* the first 4 bytes are not "STRM": the header is parsed, the operator is
\* asked whether to accept
PrimaryHeader(p, h) ==
    /\ prim[p].pc = "new"
    /\ \A q \in Prims : q < p => prim[q].pc # "new"
    /\ hdr' = [hdr EXCEPT ![p] = h]
    /\ prim' = [prim EXCEPT ![p].pc = "prompt_accept"]
    /\ UNCHANGED <<st, active, task, files, dirs, auxClosed>>

\* the answer to "Accept this transfer? (y/n)": anything but y/yes declines
\* with 'N'; otherwise the key is asked for
OperatorAnswer(p, typed) ==
    /\ prim[p].pc = "prompt_accept"
    /\ IF StripLower(typed) \notin {"y", "yes"}
       THEN prim' = [prim EXCEPT ![p].pc = "closed", ![p].response = typed,
                                 ![p].out = Append(@, "N")]
       ELSE prim' = [prim EXCEPT ![p].pc = "prompt_key", ![p].response = typed]
    /\ UNCHANGED <<hdr, st, active, task, files, dirs, auxClosed>>

\* a wrong key: 'N', close
DeclineKey(p, key) ==
    /\ prim' = [prim EXCEPT ![p].pc = "closed", ![p].received_key = key,
                            ![p].out = Append(@, "N")]
    /\ UNCHANGED <<st, active, task, files, dirs, worker, tree>>

\* the handler raises after the 'Y' (streams[0] of an empty dict, or open()
\* of a directory): the exception leaves _handle_client, nothing is undone
\* and the writer is not closed
AcceptTarCrash(p, key) ==
    /\ prim' = [prim EXCEPT ![p].pc = "crashed", ![p].received_key = key,
                            ![p].out = Append(@, "Y")]
    /\ dirs' = dirs \cup {DownloadDir}
    /\ UNCHANGED <<st, active, task, files, worker, tree>>

\* directory transfer: the target directory is resolved and created, the
\* frame loop of _handle_tar_transfer starts
AcceptTar(p, key) ==
    LET target == ResolveTargetDirectory(hdr[p].filename)
    IN  /\ prim' = [prim EXCEPT ![p].pc = "tar_loop", ![p].received_key = key,
                                ![p].out = Append(@, "Y"),
                                ![p].target_dir = target, ![p].ctr = 0]
        /\ dirs' = dirs \cup {DownloadDir, target}
        /\ worker' = [worker EXCEPT ![p] = [NoWorker EXCEPT !.status = "running"]]
        /\ UNCHANGED <<st, active, task, files, tree>>

\* open(filepath, "wb") of an existing directory raises
AcceptFileIsDir(p, key) ==
    /\ prim' = [prim EXCEPT ![p].pc = "crashed", ![p].received_key = key,
                            ![p].out = Append(@, "Y")]
    /\ dirs' = dirs \cup {DownloadDir}
    /\ UNCHANGED <<st, active, task, files, worker, tree>>

\* file transfer: the file is created and preallocated, the TransferState is
\* registered under the header's transfer id, segment 0's task is started on
\* this connection (streams[0] raises KeyError when stream_count is 0)
AcceptFile(p, key) ==
    LET h == hdr[p]
        k == NextTask
    IN  /\ files' = [files EXCEPT ![<<h.filename, 0>>] =
                        [exists |-> TRUE, content |-> Zeros(h.file_size),
                         writes |-> Zeros(h.file_size)]]
        /\ dirs' = dirs \cup {DownloadDir}
        /\ active' = [active EXCEPT ![h.transfer_id] = p]
        /\ UNCHANGED <<worker, tree>>
        /\ IF h.stream_count = 0
           THEN /\ st' = [st EXCEPT ![p] = NewState(h)]
                /\ prim' = [prim EXCEPT ![p].pc = "crashed",
                                        ![p].received_key = key,
                                        ![p].out = Append(@, "Y")]
                /\ UNCHANGED task
           ELSE /\ k \in TaskIds
                /\ st' = [st EXCEPT ![p] = [NewState(h) EXCEPT !.tasks = <<k>>]]
                /\ task' = [task EXCEPT ![k] = NewTask(p, 0, FALSE, 0)]
                /\ prim' = [prim EXCEPT ![p].pc = "wait_complete",
                                        ![p].received_key = key,
                                        ![p].out = Append(@, "Y")]

\* what follows a matching key: download_dir is made, 'Y' is written, and
\* the transfer starts, all before the handler suspends again
Accept(p, key) ==
    IF is_tar_archive(hdr[p])
    THEN IF hdr[p].stream_count = 0
         THEN AcceptTarCrash(p, key)
         ELSE AcceptTar(p, key)
    ELSE IF <<hdr[p].filename, 0>> \in dirs
         THEN AcceptFileIsDir(p, key)
         ELSE AcceptFile(p, key)

\* a key check that lets every key pass
KeyMismatchIgnored(received_key, key_hash) == FALSE

\* expected_hash != key_hash
KeyMismatch(received_key, key_hash) == get_key_hash(received_key) # key_hash

\* the answer to "Enter transfer key": stripped, upper-cased, hashed and
\* compared with the header's key_hash
OperatorKey(p, typed) ==
    /\ prim[p].pc = "prompt_key"
    /\ LET received_key == StripUpper(typed)
       IN  IF KeyMismatch(received_key, hdr[p].key_hash)
           THEN DeclineKey(p, received_key)
           ELSE Accept(p, received_key)
    /\ UNCHANGED <<hdr, auxClosed>>

\* after wait_complete: the transfer id is popped from the map, the final
\* byte is 'N' when state.error is set and 'Y' otherwise, the writer is closed
PrimaryComplete(p) ==
    /\ prim[p].pc = "wait_complete"
    /\ st[p].done_event
    /\ st[p].ahead = 0
    /\ active' = [active EXCEPT ![hdr[p].transfer_id] = 0]
    /\ prim' = [prim EXCEPT ![p].pc = "closed",
                            ![p].out = Append(@, IF st[p].error # NoError
                                                 THEN "N" ELSE "Y")]
    /\ UNCHANGED <<hdr, st, task, files, dirs, auxClosed>>

(***************************************************************************)
(* Receiver: FileReceiver._handle_tar_transfer                             *)
(***************************************************************************)
\* the payload of a frame after cipher.update and, with compression, after
\* zlib.decompress; ok is false when zlib raises
Decode(f, compressed, iv, ctr) ==
    LET payload == CipherUpdate(f.payload, iv, ctr)
    IN  IF ~compressed THEN [ok |-> TRUE, chunk |-> payload]
        ELSE IF Decompressible(payload)
             THEN [ok |-> TRUE, chunk |-> Decompress(payload)]
             ELSE [ok |-> FALSE, chunk |-> <<>>]

\* queue.Queue(maxsize=4) of TarExtractionWorker
QueueCapacity == 4

\* a queue whose put never waits
QueueAlwaysHasRoom(q) == TRUE

\* queue.put(item) returns at once when the queue holds fewer than maxsize
\* items, and waits for a get otherwise
QueueHasRoom(q) == Len(q) < QueueCapacity

\* the event loop's thread is inside a blocking queue.put of a handler: no
\* coroutine of the receiver runs
LoopBlocked == \E p \in Prims : prim[p].pc \in {"tar_feed", "tar_close"}

\* the finally of the frame loop: extraction.close() puts None, and blocks
\* in the put when the queue is full; then extraction.wait() is awaited
TarClose(p, ok, ctr) ==
    IF QueueHasRoom(worker[p].queue)
    THEN /\ prim' = [prim EXCEPT ![p].pc = "tar_wait", ![p].loop_ok = ok,
                                 ![p].ctr = ctr]
         /\ worker' = [worker EXCEPT ![p].queue = Append(@, NoneItem)]
    ELSE /\ prim' = [prim EXCEPT ![p].pc = "tar_close", ![p].loop_ok = ok,
                                 ![p].ctr = ctr]
         /\ UNCHANGED worker

\* extraction.feed(chunk): nothing for an empty chunk, else queue.put(chunk),
\* which blocks when the queue is full
TarFeed(p, chunk, ctr) ==
    IF chunk = <<>>
    THEN /\ prim' = [prim EXCEPT ![p].ctr = ctr]
         /\ UNCHANGED worker
    ELSE IF QueueHasRoom(worker[p].queue)
    THEN /\ prim' = [prim EXCEPT ![p].ctr = ctr]
         /\ worker' = [worker EXCEPT ![p].queue = Append(@, worker[p].put + 1),
                                     ![p].put = @ + 1]
    ELSE /\ prim' = [prim EXCEPT ![p].pc = "tar_feed", ![p].ctr = ctr]
         /\ UNCHANGED worker

\* one frame of the directory loop: the sentinel ends it with success, a
\* short read, a zlib error or a length mismatch ends it with the error, and
\* a chunk is fed to the extraction worker
TarFrame(p, f) ==
    /\ prim[p].pc = "tar_loop"
    /\ LET d == Decode(f, compression_enabled(hdr[p]), hdr[p].segs[1].iv,
                       prim[p].ctr)
       IN  IF f = Sentinel THEN TarClose(p, TRUE, prim[p].ctr)
           ELSE IF f.kind = "eof" \/ ~d.ok \/ Len(d.chunk) # f.plain_len
           THEN TarClose(p, FALSE, prim[p].ctr)
           ELSE TarFeed(p, d.chunk, prim[p].ctr + Len(f.payload))
    /\ UNCHANGED <<hdr, st, active, task, files, dirs, auxClosed, tree>>

\* the blocked put of feed() returns once the worker has taken an item
TarFeedResume(p) ==
    /\ prim[p].pc = "tar_feed"
    /\ QueueHasRoom(worker[p].queue)
    /\ prim' = [prim EXCEPT ![p].pc = "tar_loop"]
    /\ worker' = [worker EXCEPT ![p].queue = Append(@, worker[p].put + 1),
                                ![p].put = @ + 1]
    /\ UNCHANGED <<hdr, st, active, task, files, dirs, auxClosed, tree>>

\* the blocked put of close() returns once the worker has taken an item
TarCloseResume(p) ==
    /\ prim[p].pc = "tar_close"
    /\ QueueHasRoom(worker[p].queue)
    /\ prim' = [prim EXCEPT ![p].pc = "tar_wait"]
    /\ worker' = [worker EXCEPT ![p].queue = Append(@, NoneItem)]
    /\ UNCHANGED <<hdr, st, active, task, files, dirs, auxClosed, tree>>

\* what extraction removes with the target directory
RemoveTree(t) == {e \in t : ~Within(TargetBase, e.path)}

\* extraction.wait() returned or raised: the second control byte is 'Y' when
\* the loop and the worker both succeeded, else 'N' and the target directory
\* is removed
TarComplete(p) ==
    /\ prim[p].pc = "tar_wait"
    /\ worker[p].status \in {"done", "error"}
    /\ LET success == prim[p].loop_ok /\ worker[p].status = "done"
       IN  /\ prim' = [prim EXCEPT ![p].pc = "closed",
                                   ![p].out = Append(@, IF success THEN "Y"
                                                        ELSE "N")]
           /\ dirs' = IF success THEN dirs ELSE dirs \ {prim[p].target_dir}
           /\ tree' = IF success THEN tree
                      ELSE [tree EXCEPT ![p] = RemoveTree(@)]
    /\ UNCHANGED <<hdr, st, active, task, files, auxClosed, worker>>

(***************************************************************************)
(* Receiver: TarExtractionWorker (the thread; the tar members the fed      *)
(* bytes decode to are inputs)                                             *)
(***************************************************************************)
\* path is a directory: one created by the worker, or the target directory
\* or one above it
IsDir(t, path) ==
    \/ [path |-> path, kind |-> "dir"] \in t
    \/ /\ Len(path) <= Len(TargetBase)
       /\ SubSeq(TargetBase, 1, Len(path)) = path

IsFile(t, path) == [path |-> path, kind |-> "file"] \in t

\* os.makedirs(path, exist_ok=True): raises when a file is in the way
MakeDirs(t, path) ==
    LET prefixes == {SubSeq(path, 1, i) : i \in 0..Len(path)}
    IN  IF \E q \in prefixes : IsFile(t, q)
        THEN [ok |-> FALSE, tree |-> t]
        ELSE [ok |-> TRUE,
              tree |-> t \cup {[path |-> q, kind |-> "dir"] :
                                 q \in {r \in prefixes : ~IsDir(t, r)}}]

\* os.path.dirname
DirName(path) ==
    IF path = <<>> THEN path ELSE SubSeq(path, 1, Len(path) - 1)

\* one iteration of _extract_members on member m over the tree t
ExtractMember(t, m) ==
    LET j == SafeJoin(TargetBase, LStripDotSlash(m.name))
        made == MakeDirs(t, IF m.kind = "dir" THEN j.target
                            ELSE DirName(j.target))
    IN  IF m.name = <<>> THEN [ok |-> TRUE, tree |-> t]
        ELSE IF ~j.ok THEN [ok |-> FALSE, tree |-> t]
        ELSE IF m.kind = "dir" THEN made
        ELSE IF m.kind = "link" THEN [ok |-> TRUE, tree |-> t]
        ELSE IF ~made.ok THEN made
        ELSE IF IsDir(made.tree, j.target) THEN [ok |-> FALSE, tree |-> made.tree]
        ELSE [ok |-> TRUE,
              tree |-> made.tree \cup {[path |-> j.target, kind |-> "file"]}]

\* the name of m, joined to the target directory as it is, leaves it
Escapes(m) == ~SafeJoin(TargetBase, m.name).ok

\* what a chunk can be to the tar reader other than the end of a member:
\* "data" of a member still open, "bad" bytes (ReadError), or the "end"
\* blocks of the archive
NoMember(kind) == [name |-> <<>>, kind |-> kind]

\* the thread takes the next item of the queue.  None ends the archive,
\* cleanly ("end") or with a ReadError ("bad"); a chunk completes member m
\* or is one of the above.  After "end" or an error the thread exits.
WorkerTake(p, m) ==
    /\ worker[p].status = "running"
    /\ worker[p].queue # <<>>
    /\ LET w == [worker[p] EXCEPT
                    !.queue = Tail(@),
                    !.got = IF Head(worker[p].queue) = NoneItem THEN @ ELSE @ + 1]
           x == ExtractMember(tree[p], m)
       IN  IF Head(worker[p].queue) = NoneItem \/ m.kind \in {"end", "bad", "data"}
           THEN /\ Head(worker[p].queue) = NoneItem => m.kind \in {"end", "bad"}
                /\ m.kind \in {"end", "bad", "data"}
                /\ worker' = [worker EXCEPT ![p] =
                                 [w EXCEPT !.status = IF m.kind = "end" THEN "done"
                                                      ELSE IF m.kind = "bad"
                                                      THEN "error" ELSE @]]
                /\ UNCHANGED tree
           ELSE /\ worker[p].n < MaxMembers
                /\ worker' = [worker EXCEPT ![p] =
                                 [w EXCEPT !.status = IF x.ok THEN @ ELSE "error",
                                           !.n = @ + 1,
                                           !.escaped = @ \/ Escapes(m),
                                           !.member = m.name,
                                           !.member_name =
                                               LStripDotSlash(m.name)]]
                /\ tree' = [tree EXCEPT ![p] = x.tree]
    /\ UNCHANGED <<hdr, prim, st, active, task, files, dirs, auxClosed>>

\* a map that holds no transfer yet
ActiveLookupNone(tid) == {}

\* a lookup that falls back to any registered transfer
ActiveLookupAny(tid) ==
    IF tid \in TransferIds /\ active[tid] # 0 THEN {active[tid]}
    ELSE {active[t] : t \in {u \in TransferIds : active[u] # 0}}

(***************************************************************************)
(* Receiver: FileReceiver._handle_stream_connection                        *)
(***************************************************************************)
\* self._active_transfers.get(transfer_id): the handler, if any, whose
\* TransferState the map holds under the transfer id
ActiveLookup(tid) ==
    IF tid \notin TransferIds \/ active[tid] = 0 THEN {} ELSE {active[tid]}

\* state.streams.get(index): whether the header holds a StreamInfo for index
HasStream(h, index) == index \in 0..(h.stream_count - 1)

\* a connection that starts with "STRM", arriving as connection conn: a short
\* handshake, an unknown transfer id or an index with no StreamInfo closes
\* the connection; otherwise a segment task is created on it and added to
\* the transfer
StreamConnection(index, tid, complete, conn) ==
    LET found == ActiveLookup(tid)
        why == IF ~complete THEN "short"
               ELSE IF found = {} THEN "unknown"
               ELSE IF \A p \in found : ~HasStream(hdr[p], index) THEN "index"
               ELSE ""
    IN  IF why # ""
        THEN /\ auxClosed' = why
             /\ UNCHANGED <<hdr, prim, st, active, task, files, dirs>>
        ELSE \E p \in found :
               LET k == NextTask
               IN  /\ k \in TaskIds
                   /\ task' = [task EXCEPT ![k] = NewTask(p, index, TRUE, conn)]
                   /\ st' = [st EXCEPT ![p].tasks = Append(@, k)]
                   /\ UNCHANGED <<hdr, prim, active, files, dirs, auxClosed>>

(***************************************************************************)
(* Receiver: FileReceiver._receive_stream                                  *)
(***************************************************************************)
\* the place of the next ended task in the loop's queue of done callbacks
\* (call_soon keeps them in the order the tasks ended; ended is 0 for a task
\* that has not ended or whose callback has run)
EndRank == 1 + Cardinality({j \in TaskIds : task[j].ended > 0})

\* a task that ended: the coroutine's locals (remaining, the file handle and
\* its position, the cipher) are gone, its done callback is queued
Ended(t, status, exc) ==
    [t EXCEPT !.status = status, !.exc = exc, !.remaining = 0, !.pos = 0,
              !.ctr = 0, !.ended = EndRank]

\* the task ends with an exception
TaskRaise(k, kind) ==
    /\ task' = [task EXCEPT ![k] = Ended(task[k], "exc", kind)]
    /\ UNCHANGED files

\* a loop that notes the sentinel and goes on reading
TaskSentinelKeepsReading(k) ==
    /\ task' = [task EXCEPT ![k].saw = TRUE]
    /\ UNCHANGED files

\* the sentinel was read (saw): the loop ends, and the task fails when
\* remaining is not 0
TaskSentinel(k) ==
    LET t == [task[k] EXCEPT !.saw = TRUE]
    IN  /\ task' = [task EXCEPT ![k] =
                       IF t.remaining # 0
                       THEN Ended(t, "exc",
                                  "Stream ended before receiving expected bytes")
                       ELSE Ended(t, "ok", "")]
        /\ UNCHANGED files

\* handle.write(chunk); remaining -= plain_len
TaskWrite(k, f, chunk) ==
    LET path == <<hdr[task[k].owner].filename, 0>>
    IN  /\ files' = [files EXCEPT
                        ![path].content = WriteAt(@, task[k].pos, chunk),
                        ![path].writes = CountAt(@, task[k].pos, Len(chunk))]
        /\ task' = [task EXCEPT ![k].pos = @ + Len(chunk),
                                ![k].remaining = @ - f.plain_len,
                                ![k].ctr = @ + Len(f.payload)]

\* one iteration of the loop on the next frame f of the task's connection
ReceiveStream(k, f) ==
    /\ task[k].status = "running"
    /\ LET h == hdr[task[k].owner]
           d == Decode(f, compression_enabled(h),
                       h.segs[task[k].stream + 1].iv, task[k].ctr)
       IN  IF f.kind = "eof" THEN TaskRaise(k, "IncompleteReadError")
           ELSE IF f = Sentinel THEN TaskSentinel(k)
           ELSE IF ~d.ok THEN TaskRaise(k, "zlib.error")
           ELSE IF Len(d.chunk) # f.plain_len
           THEN TaskRaise(k, "Chunk length mismatch detected")
           ELSE TaskWrite(k, f, d.chunk)
    /\ UNCHANGED <<hdr, prim, st, active, dirs, auxClosed>>

(***************************************************************************)
(* Receiver: TransferState._task_done                                      *)
(***************************************************************************)
\* the tasks _task_done cancels when task k raised: every other task of the
\* transfer that is not done
Siblings(p, k) ==
    {j \in TaskIds : /\ j # k
                     /\ \E i \in 1..Len(st[p].tasks) : st[p].tasks[i] = j
                     /\ task[j].status = "running"}

\* an error slot that keeps the last exception
RecordLastError(error, k, exc) == <<k, exc>>

\* the error slot after task k raised exc
RecordError(error, k, exc) == IF error = NoError THEN <<k, exc>> ELSE error

\* the latch condition of _task_done
LatchSet(remaining_streams, error) == remaining_streams <= 0 \/ error # NoError

\* the done callback of a task that returned or raised, the first in the
\* loop's queue; afterwards nothing reads the task's exception again.  When
\* it sets the latch the handler's wakeup is queued behind the callbacks
\* already waiting: ahead counts them.  (A cancelled task's callback leaves
\* task.result() with CancelledError, which is no Exception: it changes
\* nothing, and the cancelled task is marked called back at once.)
TaskDone(k) ==
    /\ task[k].status \in {"ok", "exc"}
    /\ ~task[k].cb
    /\ task[k].ended = 1
    /\ LET p == task[k].owner
           raised == task[k].status = "exc"
           error == IF raised THEN RecordError(st[p].error, k, task[k].exc)
                    ELSE st[p].error
           cancelled == IF raised THEN Siblings(p, k) ELSE {}
           remaining == st[p].remaining_streams - 1
           latch == st[p].done_event \/ LatchSet(remaining, error)
           queued == Cardinality({j \in TaskIds : task[j].ended > 1})
       IN  /\ st' = [q \in Prims |->
                        IF q = p
                        THEN [st[q] EXCEPT
                                !.error = error,
                                !.remaining_streams = remaining,
                                !.done_event = latch,
                                !.ahead = IF latch /\ ~st[q].done_event
                                          THEN queued ELSE Max(0, @ - 1)]
                        ELSE [st[q] EXCEPT !.ahead = Max(0, @ - 1)]]
           /\ task' = [j \in TaskIds |->
                          IF j = k
                          THEN [task[j] EXCEPT !.cb = TRUE, !.exc = "",
                                               !.ended = 0]
                          ELSE IF j \in cancelled
                          THEN [Ended(task[j], "cancelled", "")
                                   EXCEPT !.cb = TRUE, !.ended = 0]
                          ELSE IF task[j].ended > 0
                          THEN [task[j] EXCEPT !.ended = @ - 1]
                          ELSE task[j]]
    /\ UNCHANGED <<hdr, prim, active, files, dirs, auxClosed>>

(***************************************************************************)
(* The receiver and any peer: what arrives on a connection is an input.    *)
(***************************************************************************)
SenderKey == "ABC123"
Responses == {" Yes ", "n"}
TypedKeys == {" abc123 ", "zzz999"}

Seg(iv, offset, length) == [iv |-> iv, offset |-> offset, length |-> length]

\* headers a peer may send first: well-formed ones as the sender plans
\* them, with and without compression and for a directory, and malformed ones
\* (no stream, a segment beyond total_size, overlapping segments)
FirstHeaders ==
    { Header("f", 2, get_key_hash(SenderKey), {}, 0, 1,
             WithIv(BuildSegments(2, n, 0))) : n \in 1..2 }
    \cup
    { Header("f", 1, get_key_hash(SenderKey), {"COMPRESS"}, 1, 1, <<Seg(1, 0, 1)>>),
      Header("f", 0, get_key_hash(SenderKey), {"TAR_ARCHIVE"}, 0, 1, <<Seg(1, 0, 0)>>),
      Header("f", 1, get_key_hash(SenderKey), {}, 0, 1, <<>>),
      Header("f", 1, get_key_hash(SenderKey), {}, 0, 1, <<Seg(1, 0, 2)>>),
      Header("f", 2, get_key_hash(SenderKey), {"MULTI_STREAM"}, 0, 1,
             <<Seg(1, 0, 2), Seg(2, 0, 2)>>) }

\* headers a peer may send when it opens two primary connections: a
\* one-byte file under either transfer id, or a directory
PairHeaders ==
    { Header("f", 1, get_key_hash(SenderKey), {}, 0, t, <<Seg(1, 0, 1)>>)
         : t \in TransferIds }
    \cup
    { Header("f", 0, get_key_hash(SenderKey), {"TAR_ARCHIVE"}, 0, 1, <<Seg(1, 0, 0)>>) }

\* what the sender writes for a chunk: cipher.update of the chunk, or of its
\* zlib.compress when compression is on
Encode(chunk, compressed, iv, ctr) ==
    CipherUpdate(IF compressed THEN Compress(chunk) ELSE chunk, iv, ctr)

\* frames a peer may send where the receiver's cipher is at ctr: a lost
\* connection, the sentinel, a payload zlib rejects, and chunks of 1 to
\* ChunkSize bytes under every plain_len from 1 to ChunkSize; at most
\* MaxWire payload bytes on a connection
PeerFramesUpTo(compressed, iv, ctr, max) ==
    LET data == {Frame(1, CipherUpdate(<<1>>, iv, ctr))}
                \cup {Frame(n, Encode([i \in 1..m |-> 1], compressed, iv, ctr))
                        : n \in 1..ChunkSize, m \in 1..ChunkSize}
    IN  {Eof, Sentinel}
        \cup {f \in data : ctr + Len(f.payload) <= max}

PeerFrames(compressed, iv, ctr) == PeerFramesUpTo(compressed, iv, ctr, MaxWire)

\* the frames a peer may send next on the connection of task k
TaskFrames(k) ==
    LET h == hdr[task[k].owner]
    IN  IF task[k].status = "running"
        THEN PeerFrames(compression_enabled(h),
                        h.segs[task[k].stream + 1].iv, task[k].ctr)
        ELSE {}

\* the frames a peer may send next on a directory transfer's connection
TarFrames(p) ==
    IF prim[p].pc = "tar_loop"
    THEN PeerFrames(compression_enabled(hdr[p]), hdr[p].segs[1].iv, prim[p].ctr)
    ELSE {}

Init ==
    /\ InitPlanIdle
    /\ InitReceiver
    /\ InitSenderIdle

\* auxiliary handshakes a peer may send: <<index, transfer id, complete>>
AuxHandshakes == (0..2) \X TransferIds \X BOOLEAN

\* the auxiliary handshakes of a peer that claims segment 0 only
AuxHandshakesZero == {0} \X TransferIds \X {TRUE}

\* names of tar members, character by character
NameA == <<"a">>
NameDotSlashAB == <<".", "/", "a", "/", "b">>
NameUpUpB == <<".", ".", "/", ".", ".", "/", "b">>
NameAbsB == <<"/", "b">>
NameDotA == <<".", "a">>
NameAUpUpB == <<"a", "/", ".", ".", "/", ".", ".", "/", "b">>
NameAUpB == <<"a", "/", ".", ".", "/", "b">>
NameUp == <<".", ".">>
NameAB == <<"a", "/", "b">>

MemberNames == {NameA, NameDotSlashAB, NameUpUpB, NameAbsB, NameDotA,
                NameAUpUpB, NameAUpB, NameUp, NameAB}

\* what the worker may find in a chunk: a member of any name and kind, or no
\* member
Members ==
    [name : MemberNames, kind : {"file", "dir", "link"}]
    \cup {NoMember(k) : k \in {"end", "bad", "data"}}

\* a small choice of the same
MembersFew ==
    {[name |-> NameA, kind |-> "file"], [name |-> NameAUpUpB, kind |-> "file"]}
    \cup {NoMember(k) : k \in {"end", "bad"}}

\* archives that end, or break, before any member
MembersNone == {NoMember(k) : k \in {"end", "bad"}}

\* the receiver's steps when a peer opens primary connections P with headers
\* from H and auxiliary connections with handshakes from A, and sends tar
\* members from M.  (With MaxWire payload bytes on a connection the queue of
\* a worker never fills.)
PeerNext(P, H, A, M) ==
    \/ \E p \in P, h \in H : ~LoopBlocked /\ PrimaryHeader(p, h) /\ UNCHANGED <<planVars, sndVars, tarVars>>
    \/ \E p \in P, r \in Responses : ~LoopBlocked /\ OperatorAnswer(p, r) /\ UNCHANGED <<planVars, sndVars, tarVars>>
    \/ \E p \in P, typed \in TypedKeys : ~LoopBlocked /\ OperatorKey(p, typed) /\ UNCHANGED <<planVars, sndVars>>
    \/ \E p \in P : ~LoopBlocked /\ PrimaryComplete(p) /\ UNCHANGED <<planVars, sndVars, tarVars>>
    \/ \E p \in P : \E f \in TarFrames(p) : ~LoopBlocked /\ TarFrame(p, f) /\ UNCHANGED <<planVars, sndVars>>
    \/ \E p \in P, m \in M : WorkerTake(p, m) /\ UNCHANGED <<planVars, sndVars>>
    \/ \E p \in P : ~LoopBlocked /\ TarComplete(p) /\ UNCHANGED <<planVars, sndVars>>
    \/ \E a \in A :
          /\ ~LoopBlocked
          /\ NextTask <= MaxTasks
          /\ StreamConnection(a[1], a[2], a[3], 0)
          /\ UNCHANGED <<planVars, sndVars, tarVars>>
    \/ \E k \in TaskIds : \E f \in TaskFrames(k) : ~LoopBlocked /\ ReceiveStream(k, f) /\ UNCHANGED <<planVars, sndVars, tarVars>>
    \/ \E k \in TaskIds : ~LoopBlocked /\ TaskDone(k) /\ UNCHANGED <<planVars, sndVars, tarVars>>

\* one primary connection, any header
Next == PeerNext({1}, FirstHeaders, AuxHandshakes, MembersFew)

Spec == Init /\ [][Next]_vars

\* two primary connections
NextTwo == PeerNext(Prims, PairHeaders, AuxHandshakesZero, MembersNone)

SpecTwo == Init /\ [][NextTwo]_vars

\* one primary connection with a file of one or two bytes under any filename
FilenameHeaders ==
    { Header(name, n, get_key_hash(SenderKey), {}, 0, 1, <<Seg(1, 0, n)>>)
         : name \in Filenames, n \in 1..2 }

NextFilenames ==
    \/ \E h \in FilenameHeaders : PrimaryHeader(1, h) /\ UNCHANGED <<planVars, sndVars, tarVars>>
    \/ \E r \in Responses : OperatorAnswer(1, r) /\ UNCHANGED <<planVars, sndVars, tarVars>>
    \/ \E typed \in TypedKeys : OperatorKey(1, typed) /\ UNCHANGED <<planVars, sndVars>>
    \/ \E k \in TaskIds : \E f \in TaskFrames(k) : ReceiveStream(k, f) /\ UNCHANGED <<planVars, sndVars, tarVars>>
    \/ \E k \in TaskIds : TaskDone(k) /\ UNCHANGED <<planVars, sndVars, tarVars>>
    \/ PrimaryComplete(1) /\ UNCHANGED <<planVars, sndVars, tarVars>>

SpecFilenames == Init /\ [][NextFilenames]_vars

\* a directory transfer alone: one primary connection with a directory
\* header, up to MaxTarWire payload bytes in its frames, any members
TarHeaders ==
    {Header("f", 0, get_key_hash(SenderKey), fl, 1, 1, <<Seg(1, 0, 0)>>)
        : fl \in {{"TAR_ARCHIVE"}, {"TAR_ARCHIVE", "COMPRESS"}}}

TarFramesUpTo(p, max) ==
    IF prim[p].pc = "tar_loop"
    THEN PeerFramesUpTo(compression_enabled(hdr[p]), hdr[p].segs[1].iv,
                        prim[p].ctr, max)
    ELSE {}

NextTar ==
    \/ \E h \in TarHeaders : ~LoopBlocked /\ PrimaryHeader(1, h) /\ UNCHANGED <<planVars, sndVars, tarVars>>
    \/ \E r \in Responses : ~LoopBlocked /\ OperatorAnswer(1, r) /\ UNCHANGED <<planVars, sndVars, tarVars>>
    \/ \E typed \in TypedKeys : ~LoopBlocked /\ OperatorKey(1, typed) /\ UNCHANGED <<planVars, sndVars>>
    \/ \E f \in TarFramesUpTo(1, MaxTarWire) : ~LoopBlocked /\ TarFrame(1, f) /\ UNCHANGED <<planVars, sndVars>>
    \/ TarFeedResume(1) /\ UNCHANGED <<planVars, sndVars>>
    \/ TarCloseResume(1) /\ UNCHANGED <<planVars, sndVars>>
    \/ \E m \in Members : WorkerTake(1, m) /\ UNCHANGED <<planVars, sndVars>>
    \/ ~LoopBlocked /\ TarComplete(1) /\ UNCHANGED <<planVars, sndVars>>

SpecTar == Init /\ [][NextTar]_vars

(***************************************************************************)
(* Sender: FileSender._async_send_file and FileSender._send_stream, run    *)
(* against the receiver above                                              *)
(***************************************************************************)
FileBytes == {1, 2}

\* the source files: the contents of 0 to MaxFileSize bytes, a content and
\* the one with its two byte values exchanged counted once
FileContents ==
    {c \in UNION {[1..n -> FileBytes] : n \in 0..MaxFileSize} :
        c # <<>> => c[1] = 1}

\* TransferOptions.normalized: <<enable_compression, compression_level>>,
\* compression on, switched off, and on at level 0
CompressionOptions == {<<TRUE, 1>>, <<FALSE, 1>>, <<TRUE, 0>>}

SenderFilename == "f"
SenderTransferId == 1

\* a suggestion that ignores the file size
SuggestStreamCountNoThreshold(file_size, parallel_streams) == parallel_streams

\* FileSender._suggest_stream_count: one stream below the threshold
SuggestStreamCount(file_size, parallel_streams) ==
    IF file_size < MultiStreamThreshold THEN 1 ELSE parallel_streams

\* a decision that looks at the enable boolean alone
SenderCompressionEnableOnly(s) == s.enable_compression

\* options.enable_compression and options.compression_level > 0
SenderCompression(s) == s.enable_compression /\ s.compression_level > 0

\* a file_size that is the length of the source, directory or not
SenderFileSizeOfSource(s) == Len(s.file)

\* FileSender.__init__: file_size is 0 for a directory (file then holds the
\* bytes of the archive the producer makes of it)
SenderFileSize(s) == IF s.is_directory THEN 0 ELSE Len(s.file)

\* the stream count _async_send_file plans
SenderStreamCount(s) ==
    IF s.is_directory THEN 1
    ELSE Min(s.parallel_streams,
             SuggestStreamCount(SenderFileSize(s), s.parallel_streams))

\* the segments _async_send_file plans; err is the rounding error of the
\* float division in _build_segments
SenderSegments(s, err) ==
    IF s.is_directory THEN <<Seg(1, 0, 0)>>
    ELSE WithIv(BuildSegments(SenderFileSize(s), SenderStreamCount(s), err))

\* FileSender._build_header over the flags _async_send_file computes
BuildHeader(s, stream_count, segments) ==
    Header(SenderFilename, SenderFileSize(s), get_key_hash(s.transfer_key),
           (IF SenderCompression(s) THEN {"COMPRESS"} ELSE {})
           \cup (IF stream_count > 1 THEN {"MULTI_STREAM"} ELSE {})
           \cup (IF s.is_directory THEN {"TAR_ARCHIVE"} ELSE {}),
           IF SenderCompression(s) THEN s.compression_level ELSE 0,
           SenderTransferId, segments)

\* the start of _send_stream: remaining is the segment's length, the handle
\* is at the segment's start, the cipher at counter 0
NewSendTask(segment) ==
    [status |-> "running", remaining |-> segment.length,
     pos |-> segment.offset, ctr |-> 0, eof |-> FALSE]

\* the source file as it is on disk now: the content FileSender.__init__
\* measured, without the s.lost bytes it has lost at its end since
SourceNow(s) == SubSeq(s.file, 1, Len(s.file) - s.lost)

\* a read that ignores handle.seek(segment.start)
ReadChunkNoSeek(file, pos, size) ==
    SubSeq(file, 1, Min(Len(file), size))

\* handle.read(size) at pos
ReadChunk(file, pos, size) ==
    SubSeq(file, pos + 1, Min(Len(file), pos + size))

InitSender ==
    /\ \E file \in FileContents, c \in CompressionOptions,
          n \in 1..MaxStreams :
          snd = [NoSender EXCEPT !.pc = "start", !.file = file,
                                 !.enable_compression = c[1],
                                 !.compression_level = c[2],
                                 !.parallel_streams = n,
                                 !.transfer_key = SenderKey]
    /\ stask = [i \in Streams |-> NoSendTask]
    /\ chan = [i \in Streams |-> <<>>]
    /\ disc = NoDiscovery

InitHonest ==
    /\ InitPlanIdle
    /\ InitReceiver
    /\ InitSender

\* the primary connection is opened and the header written; the receiver
\* parses it. err is the rounding error of the float division in
\* _build_segments
SenderConnect(err) ==
    /\ snd.pc = "start"
    /\ LET stream_count == SenderStreamCount(snd)
           segments == SenderSegments(snd, err)
       IN  /\ snd' = [snd EXCEPT !.pc = "await_accept",
                                 !.stream_count = stream_count,
                                 !.segments = segments]
           /\ PrimaryHeader(1, BuildHeader(snd, stream_count, segments))
    /\ UNCHANGED <<stask, chan>>

\* a sender that goes on whatever the confirmation byte is
SenderReadAcceptAnyByte ==
    /\ snd.pc = "await_accept"
    /\ Len(prim[1].out) >= 1
    /\ snd' = [snd EXCEPT !.pc = "open_aux", !.next_idx = 1,
                          !.accept = prim[1].out[1]]
    /\ stask' = [stask EXCEPT ![0] = NewSendTask(snd.segments[1])]
    /\ UNCHANGED chan

\* reader.readexactly(1): anything but 'Y' ends the send with False, the
\* primary connection closed; on 'Y' the task of segment 0 is created on the
\* primary connection, and for a directory the TarStreamProducer with its
\* thread
SenderReadAccept ==
    /\ snd.pc = "await_accept"
    /\ Len(prim[1].out) >= 1
    /\ IF prim[1].out[1] # "Y"
       THEN /\ snd' = [snd EXCEPT !.pc = "done", !.result = "declined",
                                  !.accept = prim[1].out[1],
                                  !.closed = TRUE]
            /\ UNCHANGED stask
       ELSE /\ snd' = [snd EXCEPT !.pc = "open_aux", !.next_idx = 1,
                                  !.accept = "Y",
                                  !.tar_stream.thread =
                                      IF snd.is_directory THEN "alive" ELSE @]
            /\ stask' = [stask EXCEPT ![0] = NewSendTask(snd.segments[1])]
    /\ UNCHANGED chan

\* a finally block that cancels nothing
CancelNoSendTasks(ts) == ts

\* the tasks the finally block of _async_send_file cancels: those not done
CancelSendTasks(ts) ==
    [i \in Streams |->
        IF ts[i].status = "running"
        THEN [NoSendTask EXCEPT !.status = "cancelled"] ELSE ts[i]]

\* no confirmation byte: wait_for raises after 30 s (kind "timeout") or
\* readexactly raises on a closed connection (kind "lost"), outside the
\* try block whose finally closes the writer; send_file catches the
\* exception and returns False
SenderAcceptFails(kind) ==
    /\ snd.pc = "await_accept"
    /\ prim[1].out = <<>>
    /\ snd' = [snd EXCEPT !.pc = "done", !.result = kind, !.accept = kind]
    /\ UNCHANGED <<stask, chan>>

\* asyncio.open_connection of an auxiliary stream raises: the finally block
\* cancels the tasks, send_file returns False
SenderOpenAuxFails ==
    /\ snd.pc = "open_aux"
    /\ snd.next_idx < snd.stream_count
    /\ snd' = [snd EXCEPT !.pc = "done", !.result = "lost", !.closed = TRUE]
    /\ stask' = CancelSendTasks(stask)
    /\ UNCHANGED chan

\* for idx in range(1, stream_count): a connection is opened, the STRM
\* handshake written, and the task of segment idx created on it
SenderOpenAux ==
    LET idx == snd.next_idx
    IN  /\ snd.pc = "open_aux"
        /\ idx < snd.stream_count
        /\ chan' = [chan EXCEPT ![idx] =
                       <<[kind |-> "strm", index |-> idx,
                          transfer_id |-> SenderTransferId]>>]
        /\ stask' = [stask EXCEPT ![idx] = NewSendTask(snd.segments[idx + 1])]
        /\ snd' = [snd EXCEPT !.next_idx = idx + 1]

\* a read of chunk_size bytes whatever is left of the segment
ToReadChunkSize(remaining) == ChunkSize

\* to_read = min(chunk_size, remaining)
ToRead(remaining) == Min(ChunkSize, remaining)

\* one iteration of the loop of _send_stream: a chunk is read, compressed
\* when compression is on, encrypted and written behind its frame header
SendChunk(i) ==
    /\ ~snd.is_directory
    /\ stask[i].status = "running"
    /\ stask[i].remaining > 0
    /\ ~stask[i].eof
    /\ LET t == stask[i]
           chunk == ReadChunk(SourceNow(snd), t.pos, ToRead(t.remaining))
           payload == Encode(chunk, SenderCompression(snd),
                             snd.segments[i + 1].iv, t.ctr)
       IN  IF chunk = <<>>
           THEN /\ stask' = [stask EXCEPT ![i].eof = TRUE]
                /\ UNCHANGED chan
           ELSE /\ chan' = [chan EXCEPT ![i] =
                               Append(@, Frame(Len(chunk), payload))]
                /\ stask' = [stask EXCEPT
                               ![i].remaining = @ - Min(Len(chunk), @),
                               ![i].pos = @ + Len(chunk),
                               ![i].ctr = @ + Len(payload)]
    /\ UNCHANGED snd

\* one iteration of the loop of _send_directory_stream: the next chunk_size
\* bytes of the archive (fewer at its end), until the read returns nothing
SendDirectoryChunk ==
    /\ snd.is_directory
    /\ stask[0].status = "running"
    /\ ~stask[0].eof
    /\ LET t == stask[0]
           chunk == ReadChunk(snd.file, t.pos, ChunkSize)
           payload == Encode(chunk, SenderCompression(snd),
                             snd.segments[1].iv, t.ctr)
       IN  IF chunk = <<>>
           THEN /\ stask' = [stask EXCEPT ![0].eof = TRUE]
                /\ UNCHANGED chan
           ELSE /\ chan' = [chan EXCEPT ![0] =
                               Append(@, Frame(Len(chunk), payload))]
                /\ stask' = [stask EXCEPT ![0].pos = @ + Len(chunk),
                                          ![0].ctr = @ + Len(payload)]
    /\ UNCHANGED snd

\* writer.drain() (or the read of the source) raises in a stream's
\* coroutine: the task ends with the exception
SendTaskFails(i) ==
    /\ stask[i].status = "running"
    /\ stask' = [stask EXCEPT ![i] = [NoSendTask EXCEPT !.status = "failed"]]
    /\ UNCHANGED <<snd, chan>>

\* after the loop: the sentinel is written and the task is done
SendSentinel(i) ==
    /\ stask[i].status = "running"
    /\ IF snd.is_directory THEN stask[i].eof
       ELSE stask[i].remaining = 0 \/ stask[i].eof
    /\ chan' = [chan EXCEPT ![i] = Append(@, Sentinel)]
    /\ stask' = [stask EXCEPT ![i] = [NoSendTask EXCEPT !.status = "done",
                                                        !.eof = stask[i].eof]]
    /\ UNCHANGED snd

\* await asyncio.gather(*stream_tasks)
SenderGather ==
    /\ snd.pc = "open_aux"
    /\ snd.next_idx >= snd.stream_count
    /\ \A i \in 0..(snd.stream_count - 1) : stask[i].status = "done"
    /\ snd' = [snd EXCEPT !.pc = "await_final"]
    /\ UNCHANGED <<stask, chan>>

\* asyncio.gather (or the awaited directory stream) raises the exception of
\* a failed stream: the finally block cancels the tasks still running,
\* send_file returns False
SenderGatherFails ==
    /\ snd.pc = "open_aux"
    /\ snd.next_idx >= snd.stream_count
    /\ \E i \in 0..(snd.stream_count - 1) : stask[i].status = "failed"
    /\ snd' = [snd EXCEPT !.pc = "done", !.result = "task_failed",
                          !.closed = TRUE]
    /\ stask' = CancelSendTasks(stask)
    /\ UNCHANGED chan

\* a final response that always counts as success
FinalResultAlwaysOk(byte) == "ok"

\* if final_response == b"Y": return True, else return False
FinalResult(byte) == IF byte = "Y" THEN "ok" ELSE "failed"

\* the final response: 'Y' makes send_file return True
SenderReadFinal ==
    /\ snd.pc = "await_final"
    /\ Len(prim[1].out) >= 2
    /\ snd' = [snd EXCEPT !.pc = "done", !.final = prim[1].out[2],
                          !.result = FinalResult(prim[1].out[2]),
                          !.closed = TRUE]
    /\ UNCHANGED <<stask, chan>>

\* no final byte: wait_for raises after 30 s (kind "timeout") or
\* readexactly raises on a closed connection (kind "lost"); send_file
\* catches the exception and returns False
SenderFinalFails(kind) ==
    /\ snd.pc = "await_final"
    /\ Len(prim[1].out) < 2
    /\ snd' = [snd EXCEPT !.pc = "done", !.result = kind, !.final = kind,
                          !.closed = TRUE]
    /\ UNCHANGED <<stask, chan>>

\* send_file returns True
SendFileReturnsTrue == snd.pc = "done" /\ snd.result = "ok"

\* the receiver reads the STRM handshake of the auxiliary connection i
HandleAux(i) ==
    /\ chan[i] # <<>>
    /\ Head(chan[i]).kind = "strm"
    /\ StreamConnection(Head(chan[i]).index, Head(chan[i]).transfer_id,
                        TRUE, i)
    /\ chan' = [chan EXCEPT ![i] = Tail(@)]
    /\ UNCHANGED <<snd, stask>>

\* the receiver's task k reads the next frame of its connection
HandleFrame(k) ==
    /\ task[k].status = "running"
    /\ chan[task[k].conn] # <<>>
    /\ Head(chan[task[k].conn]).kind = "frame"
    /\ ReceiveStream(k, Head(chan[task[k].conn]))
    /\ chan' = [chan EXCEPT ![task[k].conn] = Tail(@)]
    /\ UNCHANGED <<snd, stask>>

NextHonest ==
    \/ \E err \in -MaxFloatErr..MaxFloatErr :
          SenderConnect(err) /\ UNCHANGED <<planVars, tarVars, disc>>
    \/ SenderReadAccept /\ UNCHANGED <<planVars, recvVars, disc>>
    \/ SenderOpenAux /\ UNCHANGED <<planVars, recvVars, disc>>
    \/ \E i \in Streams : SendChunk(i) /\ UNCHANGED <<planVars, recvVars, disc>>
    \/ \E i \in Streams : SendSentinel(i) /\ UNCHANGED <<planVars, recvVars, disc>>
    \/ SenderGather /\ UNCHANGED <<planVars, recvVars, disc>>
    \/ SenderReadFinal /\ UNCHANGED <<planVars, recvVars, disc>>
    \/ \E r \in Responses : OperatorAnswer(1, r) /\ UNCHANGED <<planVars, sndVars, tarVars>>
    \/ \E typed \in TypedKeys : OperatorKey(1, typed) /\ UNCHANGED <<planVars, sndVars>>
    \/ \E i \in Streams : HandleAux(i) /\ UNCHANGED <<planVars, tarVars, disc>>
    \/ \E k \in TaskIds : HandleFrame(k) /\ UNCHANGED <<planVars, tarVars, disc>>
    \/ \E k \in TaskIds : TaskDone(k) /\ UNCHANGED <<planVars, sndVars, tarVars>>
    \/ PrimaryComplete(1) /\ UNCHANGED <<planVars, sndVars, tarVars>>

SpecHonest == InitHonest /\ [][NextHonest]_vars

(***************************************************************************)
(* The sender with any transfer key, against the receiver and its operator *)
(***************************************************************************)
\* FileSender.__init__: transfer_key is the key passed in as it is (upper
\* case, lower case, or with spaces around it), or a generated one, which is
\* upper case
SenderKeys == {"ABC123", "abc123", " ABC123 "}

\* a one-stream send of any file content under any key
InitKey ==
    /\ InitPlanIdle
    /\ InitReceiver
    /\ \E file \in FileContents, key \in SenderKeys :
          snd = [NoSender EXCEPT !.pc = "start", !.file = file,
                                 !.transfer_key = key]
    /\ stask = [i \in Streams |-> NoSendTask]
    /\ chan = [i \in Streams |-> <<>>]
    /\ disc = NoDiscovery

NextKey ==
    \/ SenderConnect(0) /\ UNCHANGED <<planVars, tarVars, disc>>
    \/ SenderReadAccept /\ UNCHANGED <<planVars, recvVars, disc>>
    \/ SendChunk(0) /\ UNCHANGED <<planVars, recvVars, disc>>
    \/ SendSentinel(0) /\ UNCHANGED <<planVars, recvVars, disc>>
    \/ SenderGather /\ UNCHANGED <<planVars, recvVars, disc>>
    \/ SenderReadFinal /\ UNCHANGED <<planVars, recvVars, disc>>
    \/ \E r \in Responses : OperatorAnswer(1, r) /\ UNCHANGED <<planVars, sndVars, tarVars>>
    \/ \E typed \in SenderKeys \cup TypedKeys :
          OperatorKey(1, typed) /\ UNCHANGED <<planVars, sndVars>>
    \/ \E k \in TaskIds : HandleFrame(k) /\ UNCHANGED <<planVars, tarVars, disc>>
    \/ \E k \in TaskIds : TaskDone(k) /\ UNCHANGED <<planVars, sndVars, tarVars>>
    \/ PrimaryComplete(1) /\ UNCHANGED <<planVars, sndVars, tarVars>>

SpecKey == InitKey /\ [][NextKey]_vars

(***************************************************************************)
(* The sender against any peer: every option, a file or a directory, a     *)
(* peer that answers any byte or nothing, connections that break           *)
(***************************************************************************)
\* TransferOptions.normalized: compression_level is clamped to 0..MaxLevel
MaxLevel == 9

NormalizedLevel(level) == Min(MaxLevel, Max(0, level))

NormalizedStreams(streams) == Max(1, Min(MaxStreams, streams))

\* the sources: a file, or the archive of a directory, of 0 to MaxFileSize
\* bytes
SenderSources == {[i \in 1..n |-> 1] : n \in 0..MaxFileSize}

\* the bytes a peer may answer on the primary connection
PeerBytes == {"Y", "N", "?"}

\* FileSender.__init__ over every source and every option
InitSenderOptions ==
    /\ \E file \in SenderSources, is_directory \in BOOLEAN,
          enable \in BOOLEAN, level \in -1..(MaxLevel + 1),
          streams \in 0..(MaxStreams + 1) :
          snd = [NoSender EXCEPT !.pc = "start", !.file = file,
                                 !.is_directory = is_directory,
                                 !.enable_compression = enable,
                                 !.compression_level = NormalizedLevel(level),
                                 !.parallel_streams = NormalizedStreams(streams),
                                 !.transfer_key = SenderKey]
    /\ stask = [i \in Streams |-> NoSendTask]
    /\ chan = [i \in Streams |-> <<>>]
    /\ disc = NoDiscovery

InitSenderPeer ==
    /\ InitPlanIdle
    /\ InitReceiver
    /\ InitSenderOptions

\* the source file is truncated by n bytes after FileSender.__init__ took
\* its size and before the send starts
SourceShrinks(n) ==
    /\ snd.pc = "start"
    /\ ~snd.is_directory
    /\ snd.lost = 0
    /\ n <= Len(snd.file)
    /\ snd' = [snd EXCEPT !.lost = n]
    /\ UNCHANGED <<stask, chan>>

\* the peer writes one byte on the primary connection
PeerReply(byte) ==
    /\ snd.pc \notin {"idle", "start"}
    /\ Len(prim[1].out) < 2
    /\ prim' = [prim EXCEPT ![1].out = Append(@, byte)]
    /\ UNCHANGED <<hdr, st, active, task, files, dirs, auxClosed>>

NextSenderPeer ==
    \/ \E err \in -MaxFloatErr..MaxFloatErr :
          SenderConnect(err) /\ UNCHANGED <<planVars, tarVars, disc>>
    \/ SenderReadAccept /\ UNCHANGED <<planVars, recvVars, disc>>
    \/ \E kind \in {"timeout", "lost"} :
          SenderAcceptFails(kind) /\ UNCHANGED <<planVars, recvVars, disc>>
    \/ SenderOpenAux /\ UNCHANGED <<planVars, recvVars, disc>>
    \/ SenderOpenAuxFails /\ UNCHANGED <<planVars, recvVars, disc>>
    \/ \E i \in Streams : SendChunk(i) /\ UNCHANGED <<planVars, recvVars, disc>>
    \/ SendDirectoryChunk /\ UNCHANGED <<planVars, recvVars, disc>>
    \/ \E i \in Streams : SendTaskFails(i) /\ UNCHANGED <<planVars, recvVars, disc>>
    \/ \E i \in Streams : SendSentinel(i) /\ UNCHANGED <<planVars, recvVars, disc>>
    \/ SenderGather /\ UNCHANGED <<planVars, recvVars, disc>>
    \/ SenderGatherFails /\ UNCHANGED <<planVars, recvVars, disc>>
    \/ SenderReadFinal /\ UNCHANGED <<planVars, recvVars, disc>>
    \/ \E kind \in {"timeout", "lost"} :
          SenderFinalFails(kind) /\ UNCHANGED <<planVars, recvVars, disc>>
    \/ \E byte \in PeerBytes :
          PeerReply(byte) /\ UNCHANGED <<planVars, sndVars, tarVars>>
    \/ \E n \in 1..MaxFileSize :
          SourceShrinks(n) /\ UNCHANGED <<planVars, recvVars, disc>>

SpecSenderPeer == InitSenderPeer /\ [][NextSenderPeer]_vars

(***************************************************************************)
(* Sender: TarStreamProducer and FileSender._send_directory_stream, one    *)
(* queue operation at a time, against the receiver's directory handler     *)
(***************************************************************************)
\* the most chunks tarfile writes for an archive
MaxBlocks == 14

\* a buffer that takes a chunk at its front
BufferExtendFront(buffer, chunk) == <<chunk>> \o buffer

\* self._buffer.extend(chunk)
BufferExtend(buffer, chunk) == buffer \o <<chunk>>

\* the thread of _produce: tarfile calls write(data), which puts the chunk
\* and waits while the queue is full
ProducerWrite ==
    /\ snd.tar_stream.thread = "alive"
    /\ snd.tar_stream.written < MaxBlocks
    /\ QueueHasRoom(snd.tar_stream.queue)
    /\ snd' = [snd EXCEPT
                  !.tar_stream.queue = Append(@, snd.tar_stream.written + 1),
                  !.tar_stream.written = @ + 1]
    /\ UNCHANGED <<stask, chan>>

\* the finally of _produce, after the archive is complete or tar.add has
\* raised: None is put, with the same wait
ProducerEnd ==
    /\ snd.tar_stream.thread = "alive"
    /\ QueueHasRoom(snd.tar_stream.queue)
    /\ snd' = [snd EXCEPT !.tar_stream.queue = Append(@, NoneItem),
                          !.tar_stream.thread = "ending"]
    /\ UNCHANGED <<stask, chan>>

\* _produce returns: the thread is not alive any more
ProducerExit ==
    /\ snd.tar_stream.thread = "ending"
    /\ snd' = [snd EXCEPT !.tar_stream.thread = "exited"]
    /\ UNCHANGED <<stask, chan>>

\* TarStreamProducer.read in the executor: one queue.get() of its loop,
\* taken while the buffer is short of chunk_size and None was not seen
DirectoryGet ==
    /\ snd.is_directory
    /\ stask[0].status = "running"
    /\ ~stask[0].eof
    /\ Len(snd.tar_stream.buffer) < ChunkSize
    /\ ~snd.tar_stream.finished
    /\ snd.tar_stream.queue # <<>>
    /\ LET chunk == Head(snd.tar_stream.queue)
       IN  snd' = IF chunk = NoneItem
                  THEN [snd EXCEPT !.tar_stream.queue = Tail(@),
                                   !.tar_stream.finished = TRUE]
                  ELSE [snd EXCEPT !.tar_stream.queue = Tail(@),
                                   !.tar_stream.buffer = BufferExtend(@, chunk)]
    /\ UNCHANGED <<stask, chan>>

\* TarStreamProducer.close() cannot return: the thread is alive and the
\* queue is full, and close() itself runs in the only reader of the queue
CloseBlocks(ts) == ts.thread \in {"alive", "ending"} /\ ~QueueHasRoom(ts.queue)

\* TarStreamProducer.close(): _finished is set, and with the thread alive
\* None is put and the thread joined for at most a second
Close(ts) ==
    [ts EXCEPT !.finished = TRUE,
               !.queue = IF ts.thread \in {"alive", "ending"} /\ QueueHasRoom(@)
                         THEN Append(@, NoneItem) ELSE @]

\* the task after the finally of _send_directory_stream, which calls
\* close(): its outcome, or held inside close() for good
AfterClose(status, held) ==
    [NoSendTask EXCEPT
        !.status = IF CloseBlocks(snd.tar_stream) THEN held ELSE status,
        !.pos = stask[0].pos, !.eof = stask[0].eof]

\* read returns: the first chunk_size bytes of the buffer, or what is left
\* of it after None.  Nothing ends the loop; else the frame is written and
\* drained, or (~ok) the drain raises and the finally closes the producer
DirectorySend(ok) ==
    /\ snd.is_directory
    /\ stask[0].status = "running"
    /\ ~stask[0].eof
    /\ Len(snd.tar_stream.buffer) >= ChunkSize \/ snd.tar_stream.finished
    /\ LET t == stask[0]
           size == Min(ChunkSize, Len(snd.tar_stream.buffer))
           chunk == [i \in 1..size |-> 1]
           payload == Encode(chunk, SenderCompression(snd),
                             snd.segments[1].iv, t.ctr)
           rest == SubSeq(snd.tar_stream.buffer, size + 1,
                          Len(snd.tar_stream.buffer))
       IN  IF size = 0
           THEN /\ ok
                /\ stask' = [stask EXCEPT ![0].eof = TRUE]
                /\ UNCHANGED <<snd, chan>>
           ELSE /\ chan' = [chan EXCEPT ![0] =
                               Append(@, Frame(Len(chunk), payload))]
                /\ IF ok
                   THEN /\ stask' = [stask EXCEPT ![0].pos = @ + size,
                                                  ![0].ctr = @ + Len(payload)]
                        /\ snd' = [snd EXCEPT !.tar_stream.buffer = rest]
                   ELSE /\ stask' = [stask EXCEPT ![0] =
                                        [AfterClose("failed", "failing")
                                            EXCEPT !.pos = t.pos + size]]
                        /\ snd' = [snd EXCEPT !.tar_stream =
                                      Close([@ EXCEPT !.buffer = rest])]

\* after the loop: the sentinel is written and drained, or (~ok) the drain
\* raises; the finally closes the producer
DirectorySentinel(ok) ==
    /\ snd.is_directory
    /\ stask[0].status = "running"
    /\ stask[0].eof
    /\ chan' = [chan EXCEPT ![0] = Append(@, Sentinel)]
    /\ stask' = [stask EXCEPT ![0] =
                    IF ok THEN AfterClose("done", "closing")
                    ELSE AfterClose("failed", "failing")]
    /\ snd' = [snd EXCEPT !.tar_stream = Close(@)]

\* the receiver's directory handler reads the next frame of the primary
\* connection
HandleTarFrame ==
    /\ chan[0] # <<>>
    /\ TarFrame(1, Head(chan[0]))
    /\ chan' = [chan EXCEPT ![0] = Tail(@)]
    /\ UNCHANGED <<snd, stask>>

\* compression off, and on at level 1
DirectoryOptions == {<<FALSE, 0>>, <<TRUE, 1>>}

InitDirectory ==
    /\ InitPlanIdle
    /\ InitReceiver
    /\ \E c \in DirectoryOptions :
          snd = [NoSender EXCEPT !.pc = "start", !.is_directory = TRUE,
                                 !.enable_compression = c[1],
                                 !.compression_level = c[2],
                                 !.transfer_key = SenderKey]
    /\ stask = [i \in Streams |-> NoSendTask]
    /\ chan = [i \in Streams |-> <<>>]
    /\ disc = NoDiscovery

\* what the worker finds in a chunk of the sender's archive: data of a
\* member, or the end blocks
ArchiveMembers == {NoMember(k) : k \in {"end", "data"}}

NextDirectory ==
    \/ SenderConnect(0) /\ UNCHANGED <<planVars, tarVars, disc>>
    \/ \E r \in Responses : ~LoopBlocked /\ OperatorAnswer(1, r) /\ UNCHANGED <<planVars, sndVars, tarVars>>
    \/ \E typed \in TypedKeys : ~LoopBlocked /\ OperatorKey(1, typed) /\ UNCHANGED <<planVars, sndVars>>
    \/ SenderReadAccept /\ UNCHANGED <<planVars, recvVars, disc>>
    \/ ProducerWrite /\ UNCHANGED <<planVars, recvVars, disc>>
    \/ ProducerEnd /\ UNCHANGED <<planVars, recvVars, disc>>
    \/ ProducerExit /\ UNCHANGED <<planVars, recvVars, disc>>
    \/ DirectoryGet /\ UNCHANGED <<planVars, recvVars, disc>>
    \/ \E ok \in BOOLEAN : DirectorySend(ok) /\ UNCHANGED <<planVars, recvVars, disc>>
    \/ \E ok \in BOOLEAN : DirectorySentinel(ok) /\ UNCHANGED <<planVars, recvVars, disc>>
    \/ SenderGather /\ UNCHANGED <<planVars, recvVars, disc>>
    \/ SenderGatherFails /\ UNCHANGED <<planVars, recvVars, disc>>
    \/ ~LoopBlocked /\ HandleTarFrame /\ UNCHANGED <<planVars, disc>>
    \/ TarFeedResume(1) /\ UNCHANGED <<planVars, sndVars>>
    \/ TarCloseResume(1) /\ UNCHANGED <<planVars, sndVars>>
    \/ \E m \in ArchiveMembers : WorkerTake(1, m) /\ UNCHANGED <<planVars, sndVars>>
    \/ ~LoopBlocked /\ TarComplete(1) /\ UNCHANGED <<planVars, sndVars>>
    \/ SenderReadFinal /\ UNCHANGED <<planVars, recvVars, disc>>
    \/ SenderFinalFails("lost") /\ UNCHANGED <<planVars, recvVars, disc>>

SpecDirectory == InitDirectory /\ [][NextDirectory]_vars

(***************************************************************************)
(* Discovery: NetworkDiscovery.discover_devices, ReceiverDiscovery,        *)
(* FileSender.find_receiver and FileSender.transfer.  A datagram's text is *)
(* a sequence of words.                                                    *)
(***************************************************************************)
\* f"SENDER_REQUEST:{self.filename}:{self.file_size}:{self.transfer_key}"
RequestText == <<"SENDER_REQUEST:", SenderFilename, ":", "1", ":", SenderKey>>

\* the literal the receiver answers
ReadyText == <<"RECEIVER_READY">>

\* the texts another host may send to the sender's socket by itself: the
\* request, and an answer that repeats the request
DatagramTexts == {RequestText, ReadyText \o RequestText}

\* message in response
Contains(message, response) ==
    \E i \in 0..(Len(response) - Len(message)) :
        SubSeq(response, i + 1, i + Len(message)) = message

\* message.startswith("SENDER_REQUEST:")
StartsWithRequest(text) == text # <<>> /\ text[1] = "SENDER_REQUEST:"

\* the addresses find_receiver counts as the sender's own
LocalIps == {LocalIp, "127.0.0.1"}

\* find_receiver over the collected devices: the first that is not local,
\* else the first, else None
FindReceiver(devices) ==
    LET non_local == SelectSeq(devices, LAMBDA d : d[1] \notin LocalIps)
    IN  IF devices = <<>> THEN "None"
        ELSE IF non_local # <<>> THEN non_local[1][1]
        ELSE devices[1][1]

\* discover_devices starts: the socket is bound, the window opens
DiscoverStart ==
    /\ disc.pc = "idle"
    /\ disc' = [disc EXCEPT !.pc = "window"]

\* one round of broadcast_presence: the request goes to the broadcast
\* address; the receivers in heard get it, and with loop the sender's own
\* socket, bound to the same port, gets it too
Broadcast(heard, loop) ==
    /\ disc.pc = "window"
    /\ disc.rounds < MaxBroadcasts
    /\ loop => disc.sent < MaxDatagrams
    /\ disc' = [disc EXCEPT
                   !.rounds = @ + 1,
                   !.sent = IF loop THEN @ + 1 ELSE @,
                   !.asked = @ \cup heard,
                   !.inbox = IF loop
                             THEN Append(@, [ip |-> LocalIp, text |-> RequestText])
                             ELSE @]

\* ReceiverDiscovery's listener on host r: a datagram that starts with
\* SENDER_REQUEST: is answered with RECEIVER_READY to its source address
ReceiverAnswer(r) ==
    /\ r \in disc.asked
    /\ disc.sent < MaxDatagrams
    /\ StartsWithRequest(RequestText)
    /\ disc' = [disc EXCEPT
                   !.asked = @ \ {r},
                   !.sent = @ + 1,
                   !.inbox = Append(@, [ip |-> r, text |-> ReadyText])]

\* another host sends a datagram of its own to the sender's socket
PeerDatagram(ip, text) ==
    /\ disc.pc = "window"
    /\ disc.sent < MaxDatagrams
    /\ disc' = [disc EXCEPT !.sent = @ + 1,
                            !.inbox = Append(@, [ip |-> ip, text |-> text])]

\* the listen thread of discover_devices takes a datagram within the window
\* and keeps it when the request's text is in it
Listen ==
    /\ disc.pc = "window"
    /\ disc.inbox # <<>>
    /\ LET d == Head(disc.inbox)
       IN  disc' = [disc EXCEPT
                      !.inbox = Tail(@),
                      !.read = Append(@, d),
                      !.discovered = IF Contains(RequestText, d.text)
                                     THEN Append(@, <<d.ip, d.text>>)
                                     ELSE @]

\* the window is over: discover_devices returns what was collected and
\* find_receiver picks the receiver
DiscoverReturn ==
    /\ disc.pc = "window"
    /\ disc.rounds = MaxBroadcasts
    /\ disc' = [disc EXCEPT !.pc = "found",
                            !.receiver = FindReceiver(disc.discovered)]

\* FileSender.transfer: without a receiver it returns False, else it calls
\* send_file with the receiver's address
Transfer ==
    /\ disc.pc = "found"
    /\ disc' = [disc EXCEPT !.pc = "done",
                            !.returned = IF disc.receiver = "None"
                                         THEN "False" ELSE "send_file"]

NextDiscovery ==
    \/ DiscoverStart /\ UNCHANGED <<planVars, recvVars, snd, stask, chan>>
    \/ \E heard \in SUBSET ReceiverHosts, loop \in BOOLEAN :
          Broadcast(heard, loop) /\ UNCHANGED <<planVars, recvVars, snd, stask, chan>>
    \/ \E r \in ReceiverHosts :
          ReceiverAnswer(r) /\ UNCHANGED <<planVars, recvVars, snd, stask, chan>>
    \/ \E ip \in ReceiverHosts, text \in DatagramTexts :
          PeerDatagram(ip, text) /\ UNCHANGED <<planVars, recvVars, snd, stask, chan>>
    \/ Listen /\ UNCHANGED <<planVars, recvVars, snd, stask, chan>>
    \/ DiscoverReturn /\ UNCHANGED <<planVars, recvVars, snd, stask, chan>>
    \/ Transfer /\ UNCHANGED <<planVars, recvVars, snd, stask, chan>>

SpecDiscovery == Init /\ [][NextDiscovery]_vars

\* the receiver against the sender, or against any peer
InitStreams == InitHonest \/ Init

NextStreams == NextHonest \/ (snd.pc = "idle" /\ Next)

SpecStreams == InitStreams /\ [][NextStreams]_vars


(***************************************************************************)
(* Properties of the receiver                                              *)
(***************************************************************************)
\* the control bytes written so far on primary connection p
Out(p) == prim[p].out

\* the accept byte 'Y' was written on p
Accepted(p) == Len(Out(p)) >= 1 /\ Out(p)[1] = "Y"

\* p carried a file transfer whose final byte was written
FinalWritten(p) == ~is_tar_archive(hdr[p]) /\ Len(Out(p)) = 2

\* the tasks created for p's transfer
TasksOf(p) == {k \in TaskIds : task[k].status # "none" /\ task[k].owner = p}

\* segment index of p's transfer was received in full by some task: its whole
\* length and then the sentinel
SegmentReceived(p, index) ==
    \E k \in TasksOf(p) : task[k].stream = index /\ task[k].status = "ok"

\* the descriptor passes the validation of the primary handshake:
\* stream_count >= 1, every segment inside [0, total_size), the segments
\* tiling [0, total_size)
ValidDescriptor(h) ==
    /\ h.stream_count >= 1
    /\ \A i \in 1..Len(h.segs) :
          /\ h.segs[i].length >= 0
          /\ h.segs[i].offset + h.segs[i].length <= h.file_size
          /\ h.segs[i].offset = (IF i = 1 THEN 0
                                 ELSE h.segs[i - 1].offset + h.segs[i - 1].length)
    /\ SumLengths(h.segs) = h.file_size

\* C1: whenever the receiver has written the final 'Y' of a transfer of an
\* honest sender, the output file holds exactly the bytes of the source
\* file, and every position of it was written exactly once.
C1_RoundTrip ==
    (FinalWritten(1) /\ Out(1)[2] = "Y")
    => LET out == files[<<SenderFilename, 0>>]
       IN  /\ out.exists
           /\ out.content = snd.file
           /\ out.writes = [i \in 1..Len(snd.file) |-> 1]

\* a three-byte file arrived over three streams, compressed
C1_Witness ==
    /\ FinalWritten(1) /\ Out(1)[2] = "Y"
    /\ snd.result = "ok"
    /\ snd.stream_count = 3
    /\ Len(snd.file) = MaxFileSize
    /\ SenderCompression(snd)
    /\ files[<<SenderFilename, 0>>].content = snd.file

\* the sender has written the sentinel of stream i, and this step adds a
\* frame to the stream
FrameAfterSentinel(i) ==
    stask[i].status = "done" /\ Len(chan'[i]) > Len(chan[i])

\* task k has read a sentinel, and this step reads on: the task's state,
\* remaining count, file position or cipher counter moves
ReadAfterSentinel(k) ==
    /\ task[k].saw
    /\ \/ task'[k].status # task[k].status
       \/ task'[k].remaining # task[k].remaining
       \/ task'[k].pos # task[k].pos
       \/ task'[k].ctr # task[k].ctr

\* the directory loop of p has read the sentinel, and this step reads on
TarReadAfterSentinel(p) ==
    /\ prim[p].loop_ok
    /\ prim'[p].ctr # prim[p].ctr \/ prim'[p].pc = "tar_loop"

\* C11: once the sender has written the (0,0) sentinel of a stream it writes
\* no further frame on it, and once a receiver loop (segment task or
\* directory loop) has read a (0,0) header it reads nothing more from that
\* stream.
C11_SentinelIdempotence ==
    [][/\ \A i \in Streams : ~FrameAfterSentinel(i)
       /\ \A k \in TaskIds : ~ReadAfterSentinel(k)
       /\ \A p \in Prims : ~TarReadAfterSentinel(p)]_vars

\* the sender is done with a stream whose sentinel the receiver's task has
\* read
C11_Witness ==
    \E k \in TaskIds :
        /\ task[k].saw
        /\ task[k].status = "ok"
        /\ stask[task[k].conn].status = "done"

\* C2: the final 'Y'/'N' of a file transfer is written only after all its
\* segment tasks have completed or an error has been recorded, and a final
\* 'Y' is never written while a segment of the descriptor has not received
\* its full length and its sentinel.
C2_FinalAfterAllSegments ==
    \A p \in Prims :
        FinalWritten(p) =>
            /\ \/ st[p].error # NoError
               \/ \A k \in TasksOf(p) : task[k].status # "running"
            /\ Out(p)[2] = "Y" =>
                  \A index \in 0..(hdr[p].stream_count - 1) :
                      SegmentReceived(p, index)

\* C4, the state part: 'Y' was written only after an accepting answer and a
\* key whose hash is the header's; a declined connection holds the single
\* byte 'N', is closed, and has no TransferState, task, map entry or target
\* directory; the key prompt is reached only after an accepting answer.
KeyAuthenticated ==
    \A p \in Prims :
        /\ Accepted(p) =>
              /\ StripLower(prim[p].response) \in {"y", "yes"}
              /\ get_key_hash(prim[p].received_key) = hdr[p].key_hash
        /\ (Out(p) # <<>> /\ Out(p)[1] = "N") =>
              /\ Out(p) = <<"N">>
              /\ prim[p].pc = "closed"
              /\ st[p] = NoState
              /\ TasksOf(p) = {}
              /\ \A t \in TransferIds : active[t] # p
              /\ prim[p].target_dir = DownloadDir
        /\ (prim[p].pc = "prompt_key" \/ prim[p].received_key # "") =>
              StripLower(prim[p].response) \in {"y", "yes"}

\* C4, the step part: the step that writes the declining 'N' creates no file
\* and no directory, writes no payload byte and registers no transfer.
DeclineHasNoEffect ==
    \A p \in Prims :
        (Out(p) = <<>> /\ prim'[p].out = <<"N">>) =>
            UNCHANGED <<files, dirs, active, st, task>>

\* C4: key authentication on the receiver.  'Y' is written on a primary
\* connection only if the operator accepted and the hash of the entered key
\* equals the header's key_hash; otherwise exactly one 'N' is written, the
\* connection is closed, no file or target directory is created, no payload
\* byte is written and no transfer is registered; the key is requested only
\* after the operator accepted.
C4_KeyAuthentication == []KeyAuthenticated /\ [][DeclineHasNoEffect]_vars

\* the operator accepted, typed a wrong key, and the connection was declined
C4_Witness ==
    \E p \in Prims :
        /\ Out(p) = <<"N">>
        /\ StripLower(prim[p].response) = "yes"
        /\ prim[p].received_key = "ZZZ999"

\* C5: the receiver never writes the accept 'Y' for, and never starts a
\* segment task on, a non-directory header whose stream_count is 0, or with
\* a segment outside [0, total_size), or whose segments do not tile
\* [0, total_size).
C5_OnlyValidDescriptorsAccepted ==
    \A p \in Prims :
        (~is_tar_archive(hdr[p]) /\ (Accepted(p) \/ TasksOf(p) # {})) =>
            ValidDescriptor(hdr[p])

\* C6: two primary handshakes with the same transfer id are never processed
\* concurrently: while one waits for its segments under the id, no second
\* handler has accepted and registered a transfer under the same id.
C6_NoConcurrentSameTransferId ==
    \A p, q \in Prims :
        (/\ p # q
         /\ prim[p].pc = "wait_complete"
         /\ prim[q].pc = "wait_complete") =>
            hdr[p].transfer_id # hdr[q].transfer_id

\* the step is the handling of a complete auxiliary handshake whose
\* transfer id is not in the map
UnknownAuxStep ==
    \E a \in AuxHandshakes :
        /\ a[3]
        /\ active[a[2]] = 0
        /\ StreamConnection(a[1], a[2], a[3], 0)

\* C7: an auxiliary handshake with an unregistered transfer id is closed
\* without side effect (the map, every transfer's tasks, counter, error
\* slot, latch and the files are unchanged), and the map changes only in
\* steps of a primary handler.
C7_UnknownAuxNoEffect ==
    [][/\ UnknownAuxStep =>
             UNCHANGED <<active, st, task, files, dirs, prim, hdr>>
       /\ active' # active => prim' # prim]_vars

\* a handshake with an unknown id was dropped while a transfer was running
C7_Witness ==
    /\ auxClosed = "unknown"
    /\ \E p \in Prims : prim[p].pc = "wait_complete" /\ TasksOf(p) # {}

\* C8: an auxiliary handshake naming a registered transfer with an index
\* outside 1..stream_count-1 (index 0 included) starts no segment task: every
\* task on an auxiliary connection serves an index in 1..stream_count-1.
C8_NoTaskForInvalidIndex ==
    \A k \in TaskIds :
        (task[k].status # "none" /\ task[k].close_writer) =>
            task[k].stream \in 1..(hdr[task[k].owner].stream_count - 1)

\* C9: when a segment task of a file transfer fails, the error is recorded
\* and the final byte on the primary connection is 'N', never 'Y'.
C9_FailedTaskMeansFinalN ==
    \A p \in Prims :
        (FinalWritten(p) /\ st[p].error # NoError) => Out(p)[2] = "N"

\* C10: after the primary handler finishes a failed file transfer, the file
\* it created under download_dir no longer exists.
C10_PartialFileRemoved ==
    \A p \in Prims :
        (FinalWritten(p) /\ Out(p)[2] = "N" /\ prim[p].pc = "closed") =>
            ~files[<<hdr[p].filename, 0>>].exists

\* C12: every directory and file the extraction worker creates is the target
\* directory or lies below it.
C12_ExtractionStaysInTarget ==
    \A p \in Prims : \A e \in tree[p] : Within(TargetBase, e.path)

\* a member named a/../b was extracted as the file b of the target directory
C12_Witness ==
    /\ worker[1].n >= 1
    /\ [path |-> Append(TargetBase, <<"b">>), kind |-> "file"] \in tree[1]
    /\ \A e \in tree[1] : e.path # Append(TargetBase, <<"a">>)

\* C13: a tar entry whose name resolves outside the target directory makes
\* the extraction worker fail; it is never renamed and extracted.
C13_EscapingEntryIsFatal ==
    \A p \in Prims : worker[p].escaped => worker[p].status = "error"

\* C14: when the extraction worker has stopped with an error, the receive
\* loop is never blocked in feed() or close() on the full queue that the
\* exited thread no longer reads (from where it could write no 'N', remove
\* nothing and serve no other connection).
C14_NeverBlockedOnDeadWorker ==
    \A p \in Prims :
        worker[p].status = "error" =>
            ~(/\ prim[p].pc \in {"tar_feed", "tar_close"}
              /\ Len(worker[p].queue) = QueueCapacity)

\* C15: a segment task writes only inside its segment: its file position
\* never passes offset + length, and its remaining count never goes below
\* zero (the frame that would do so is refused before its bytes are written).
C15_WritesWithinSegment ==
    \A k \in TaskIds :
        task[k].status = "running" =>
            LET s == hdr[task[k].owner].segs[task[k].stream + 1]
            IN  /\ task[k].pos >= s.offset
                /\ task[k].pos <= s.offset + s.length
                /\ task[k].remaining >= 0

\* the stream tasks of the send (the directory stream counts as task 0)
\* have all written their sentinel
AllSendTasksDone ==
    \A i \in 0..(snd.stream_count - 1) : stask[i].status = "done"

\* C16: send_file returns true only if every segment task completed and the
\* final byte then read on the primary connection is 'Y'; any other final
\* byte, a timeout, a lost connection or a failed segment task makes it
\* return false.
C16_SuccessOnlyOnFinalY ==
    /\ SendFileReturnsTrue =>
          /\ AllSendTasksDone
          /\ snd.accept = "Y"
          /\ Len(prim[1].out) >= 2 /\ prim[1].out[2] = "Y"
          /\ snd.final = "Y"
    /\ (/\ snd.pc = "done"
        /\ \/ snd.final \in {"N", "?", "timeout", "lost"}
           \/ snd.accept # "Y"
           \/ \E i \in Streams : stask[i].status \in {"failed", "cancelled"})
          => ~SendFileReturnsTrue

\* a send over three streams returned true after the final 'Y'
C16_Witness ==
    /\ SendFileReturnsTrue
    /\ snd.stream_count = 3
    /\ AllSendTasksDone
    /\ prim[1].out = <<"Y", "Y">>

\* what the sender has sent besides the primary header: nothing
NothingSent ==
    /\ \A i \in Streams : chan[i] = <<>>
    /\ \A i \in Streams : stask[i].status = "none"

\* C17: the sender sends no chunk frame and opens no auxiliary connection
\* before it has read the accept byte 'Y'; when the byte read is another
\* one it sends nothing further, closes the primary connection and returns
\* false.
C17_NothingSentBeforeAccept ==
    /\ snd.accept # "Y" => NothingSent
    /\ snd.accept \in PeerBytes \ {"Y"} =>
          /\ snd.pc = "done"
          /\ snd.closed
          /\ ~SendFileReturnsTrue

\* the peer answered 'N' and the sender has ended
C17_Witness ==
    /\ snd.accept = "N"
    /\ snd.pc = "done"
    /\ prim[1].out = <<"N", "Y">>

\* the STRM handshakes with index i the sender has written, as
\* <<connection, place>> pairs
Handshakes(i) ==
    {c \in Streams \X (1..(MaxFileSize + 2)) :
        /\ c[2] <= Len(chan[c[1]])
        /\ chan[c[1]][c[2]].kind = "strm"
        /\ chan[c[1]][c[2]].index = i}

\* the for loop over range(1, stream_count) has ended
AuxLoopEnded == snd.pc = "await_final" \/ snd.final # ""

\* C19: the header's stream_count is 1 for a directory, 1 for a file below
\* the multi-stream threshold, and the normalized parallel_streams option
\* (1..MaxStreams) otherwise; the sender opens exactly stream_count - 1
\* auxiliary connections, one for each index 1..stream_count-1.
C19_StreamCountPlanning ==
    snd.pc \notin {"idle", "start"} =>
        /\ snd.parallel_streams \in 1..MaxStreams
        /\ hdr[1].stream_count =
              IF snd.is_directory THEN 1
              ELSE IF Len(snd.file) < MultiStreamThreshold THEN 1
              ELSE snd.parallel_streams
        /\ Len(hdr[1].segs) = hdr[1].stream_count
        /\ \A i \in Streams :
              /\ Cardinality(Handshakes(i)) <= 1
              /\ Handshakes(i) \subseteq {<<i, 1>>}
              /\ Handshakes(i) # {} => i \in 1..(hdr[1].stream_count - 1)
              /\ (AuxLoopEnded /\ i \in 1..(hdr[1].stream_count - 1)) =>
                     Handshakes(i) # {}

\* a file at the threshold sent with four streams: three auxiliary
\* connections are open
C19_Witness ==
    /\ snd.pc = "await_final"
    /\ ~snd.is_directory
    /\ hdr[1].stream_count = MaxStreams
    /\ \A i \in 1..(MaxStreams - 1) : Handshakes(i) = {<<i, 1>>}

\* C20: the COMPRESS flag is set iff enable_compression holds and the
\* normalized level is above 0, the header's level is 0 when the flag is
\* clear, and the receiver inflates a stream's payloads exactly when the
\* sender compresses them, for every enable and every level 0..MaxLevel.
C20_CompressionAgreement ==
    snd.pc \notin {"idle", "start"} =>
        /\ snd.compression_level \in 0..MaxLevel
        /\ "COMPRESS" \in hdr[1].flags <=>
              (snd.enable_compression /\ snd.compression_level > 0)
        /\ "COMPRESS" \notin hdr[1].flags => hdr[1].compression_level = 0
        /\ "COMPRESS" \in hdr[1].flags =>
              hdr[1].compression_level = snd.compression_level
        /\ compression_enabled(hdr[1]) <=> SenderCompression(snd)

\* compression enabled at level 0: the flag is clear and a chunk went out
\* as it is
C20_Witness ==
    /\ snd.enable_compression
    /\ snd.compression_level = 0
    /\ "COMPRESS" \notin hdr[1].flags
    /\ chan[0] # <<>>
    /\ chan[0][1] = Frame(ChunkSize,
                          CipherUpdate([i \in 1..ChunkSize |-> 1], 1, 0))

\* the listener read, within the window, a RECEIVER_READY that host r sent
ReadyRead(r) ==
    \E i \in 1..Len(disc.read) : disc.read[i] = [ip |-> r, text |-> ReadyText]

\* host r is among the responders discover_devices collected
Responder(r) ==
    \E i \in 1..Len(disc.discovered) : disc.discovered[i][1] = r

\* C18: a receiver on another host whose RECEIVER_READY reached the sender
\* within the window is among the collected responders, and find_receiver
\* returns the first responder that is not local; without a responder
\* find_receiver returns nothing and transfer() fails.
C18_ReadyReceiverIsFound ==
    /\ \A r \in ReceiverHosts : ReadyRead(r) => Responder(r)
    /\ disc.pc \in {"found", "done"} =>
          /\ (\E r \in ReceiverHosts : ReadyRead(r)) =>
                 /\ disc.receiver \in ReceiverHosts
                 /\ Responder(disc.receiver)
          /\ disc.discovered = <<>> => disc.receiver = "None"
    /\ (disc.pc = "done" /\ disc.receiver = "None") => disc.returned = "False"

\* the handler of an accepted directory transfer on p has written its
\* second control byte: 'Y' exactly when the loop read the sentinel without
\* error and the worker finished without error; with 'N' the target
\* directory and what was extracted into it are gone
TarByteMatchesOutcome(p) ==
    Len(Out(p)) = 2 =>
        /\ Out(p)[2] = "Y" <=> (prim[p].loop_ok /\ worker[p].status = "done")
        /\ Out(p)[2] \in {"Y", "N"}
        /\ Out(p)[2] = "N" =>
              /\ prim[p].target_dir \notin dirs
              /\ \A e \in tree[p] : ~Within(TargetBase, e.path)

\* the handler can write no further byte: it is blocked in a put on the
\* full queue of a worker thread that has exited
TarHandlerStuck(p) ==
    /\ prim[p].pc \in {"tar_feed", "tar_close"}
    /\ Len(worker[p].queue) = QueueCapacity
    /\ worker[p].status \in {"done", "error"}

\* C21: after accepting a directory transfer the receiver writes exactly
\* one further control byte: 'Y' iff the sentinel was read without error and
\* the extraction worker finished without error, otherwise 'N', the target
\* directory removed.
C21_DirectoryCompletionByte ==
    \A p \in Prims :
        (is_tar_archive(hdr[p]) /\ Accepted(p) /\ hdr[p].stream_count >= 1) =>
            /\ Len(Out(p)) <= 2
            /\ TarByteMatchesOutcome(p)
            /\ prim[p].pc = "closed" => Len(Out(p)) = 2
            /\ ~TarHandlerStuck(p)

\* C22: the sender sets TAR_ARCHIVE iff the source is a directory, and then
\* the header has exactly one segment, of offset 0 and length 0, and total
\* size 0; it sets MULTI_STREAM iff stream_count > 1; the two flags are
\* never set together.
C22_HeaderShapeByKind ==
    snd.pc \notin {"idle", "start"} =>
        /\ "TAR_ARCHIVE" \in hdr[1].flags <=> snd.is_directory
        /\ snd.is_directory =>
              /\ hdr[1].stream_count = 1
              /\ Len(hdr[1].segs) = 1
              /\ hdr[1].segs[1].offset = 0
              /\ hdr[1].segs[1].length = 0
              /\ hdr[1].file_size = 0
        /\ "MULTI_STREAM" \in hdr[1].flags <=> hdr[1].stream_count > 1
        /\ ~({"TAR_ARCHIVE", "MULTI_STREAM"} \subseteq hdr[1].flags)

\* a directory whose archive reaches the multi-stream threshold, sent with
\* four streams asked for
C22_Witness ==
    /\ snd.pc = "await_accept"
    /\ snd.is_directory
    /\ snd.parallel_streams = MaxStreams
    /\ Len(snd.file) >= MultiStreamThreshold
    /\ hdr[1].flags = {"TAR_ARCHIVE"}

\* C23: a file segment task whose read returned no bytes before its
\* remaining count reached 0 fails; it does not write the sentinel and end
\* as done.  (A finished task keeps in eof whether its loop ended on an
\* empty read.)
C23_ShortReadIsFatal ==
    \A i \in Streams :
        (~snd.is_directory /\ stask[i].eof) => stask[i].status # "done"

\* the two failures of a segment task the receiver detects by counting
CountingErrors ==
    {"Stream ended before receiving expected bytes",
     "Chunk length mismatch detected"}

\* C24: a segment task that reads the sentinel while its remaining count is
\* not 0, or a chunk whose length differs from the frame's plain_len, fails;
\* the transfer's error slot is then set and the final byte on the primary
\* connection is 'N'.
C24_CountingErrorMeansFinalN ==
    /\ \A k \in TaskIds :
          (task[k].status = "exc" /\ task[k].cb) =>
              st[task[k].owner].error # NoError
    /\ \A p \in Prims :
          (FinalWritten(p) /\ st[p].error[2] \in CountingErrors) =>
              Out(p)[2] = "N"

\* the send ended because a stream task failed, or because an auxiliary
\* connection could not be opened after the accept
SendAborted ==
    \/ snd.result = "task_failed"
    \/ snd.result = "lost" /\ snd.accept = "Y" /\ snd.final = ""

\* C25: when a sender segment task fails, or opening an auxiliary
\* connection fails after tasks were started, the sender cancels every task
\* that is not done, closes the primary connection, reads no final ack and
\* returns false.
C25_SenderCancellation ==
    /\ (\E i \in Streams : stask[i].status = "failed") =>
          /\ snd.pc # "await_final"
          /\ snd.final = ""
          /\ ~SendFileReturnsTrue
    /\ SendAborted =>
          /\ snd.pc = "done"
          /\ snd.closed
          /\ snd.final = ""
          /\ ~SendFileReturnsTrue
          /\ \A i \in Streams : stask[i].status # "running"

\* the task of segment 1 failed, the send ended and the task of segment 0,
\* still running, was cancelled
C25_Witness ==
    /\ snd.result = "task_failed"
    /\ stask[1].status = "failed"
    /\ stask[0].status = "cancelled"

\* the chunks of a queue, without the None items
Chunks(q) == SelectSeq(q, LAMBDA x : x # NoneItem)

\* items are the numbers first, first + 1, ... in this order
Consecutive(items, first) ==
    \A i \in 1..Len(items) : items[i] = first + i - 1

\* the data frames on the primary connection that the receiver has not read
FramesOnWire == SelectSeq(chan[0], LAMBDA f : f # Sentinel)

\* the data frames the sender has written: full chunks, and a short last one
FramesWritten == (stask[0].pos + ChunkSize - 1) \div ChunkSize

\* C26: the queue of the sender's tar producer and the queue of the
\* receiver's extraction worker never hold more than 4 items; what tarfile
\* has written and the sender has not sent yet is in the buffer and the queue,
\* complete and in the order written; each data frame the sender wrote is on
\* the wire, held by the receiver's blocked put, or was put into the worker's
\* queue, and the chunks in that queue are those put and not taken yet, in
\* the order put
C26_BackpressureBound ==
    /\ Len(snd.tar_stream.queue) <= QueueCapacity
    /\ LET held == snd.tar_stream.buffer \o Chunks(snd.tar_stream.queue)
       IN  /\ Len(held) = snd.tar_stream.written - stask[0].pos
           /\ Consecutive(held, stask[0].pos + 1)
    /\ \A p \in Prims :
          /\ Len(worker[p].queue) <= QueueCapacity
          /\ Len(Chunks(worker[p].queue)) = worker[p].put - worker[p].got
          /\ Consecutive(Chunks(worker[p].queue), worker[p].got + 1)
    /\ worker[1].put + (IF prim[1].pc = "tar_feed" THEN 1 ELSE 0)
          + Len(FramesOnWire) = FramesWritten

\* both queues are full with their producers waiting: the tar thread has more
\* to write, and the receiver's frame loop is inside feed()
C26_Witness ==
    /\ Len(snd.tar_stream.queue) = QueueCapacity
    /\ snd.tar_stream.thread = "alive"
    /\ snd.tar_stream.written >= QueueCapacity + 1
    /\ Len(worker[1].queue) = QueueCapacity
    /\ prim[1].pc = "tar_feed"

\* C27: TarStreamProducer.close() always returns: the directory stream is
\* never held inside the close() of its finally block, whether the loop ended
\* at the end of the archive or with a send error while the tar thread was
\* waiting on the full queue
C27_CloseAlwaysReturns ==
    snd.is_directory => stask[0].status \notin {"closing", "failing"}

\* the handler of p is between the acceptance of its handshake and the
\* completion of its transfer
InTransfer(p) == Accepted(p) /\ prim[p].pc = "wait_complete"

\* C28: a transfer id is in _active_transfers only while the handler that
\* registered it is between acceptance and completion; a handler that has
\* written its final byte, or has ended in any other way, has left no entry
C28_ActiveTransferLifecycle ==
    \A tid \in TransferIds :
        active[tid] # 0 =>
            /\ hdr[active[tid]].transfer_id = tid
            /\ InTransfer(active[tid])

\* the same for the headers that hold at least one stream
C28_LifecycleWithStreams ==
    \A tid \in TransferIds :
        (active[tid] # 0 /\ hdr[active[tid]].stream_count >= 1) =>
            /\ hdr[active[tid]].transfer_id = tid
            /\ InTransfer(active[tid])

\* C29: within a transfer the error slot, once it holds a task's exception,
\* is never written again, and the completion latch, once set, stays set
C29_FirstErrorWins ==
    [][\A p \in Prims :
          /\ st[p].error # NoError => st'[p].error = st[p].error
          /\ st[p].done_event => st'[p].done_event]_vars

\* the done callback of a second failed task has run, and the slot holds the
\* exception of the first
C29_Witness ==
    \E p \in Prims, k \in TaskIds :
        /\ st[p].error # NoError
        /\ st[p].error[1] # k
        /\ st[p].done_event
        /\ task[k].owner = p
        /\ task[k].status = "exc"
        /\ task[k].cb

\* a name without its "./" prefix, if it has one
WithoutDotSlash(name) ==
    IF Len(name) >= 2 /\ name[1] = "." /\ name[2] = "/"
    THEN SubSeq(name, 3, Len(name)) ELSE name

\* C30: the name the worker joins to the target directory is the member's
\* name without a leading "./", and the member's name itself when it does not
\* start with "./"
C30_OnlyDotSlashStripped ==
    \A p \in Prims :
        worker[p].member # <<>> =>
            worker[p].member_name = WithoutDotSlash(worker[p].member)

C32_KeyAgreement ==
    [][OperatorKey(1, snd.transfer_key) => Accepted(1)']_vars

\* the sum of the plain_len fields of frames
RECURSIVE SumPlainLen(_)
SumPlainLen(frames) ==
    IF frames = <<>> THEN 0
    ELSE Head(frames).plain_len + SumPlainLen(Tail(frames))

\* what the task of segment i has written after the STRM handshake
FramesOf(i) == SelectSeq(chan[i], LAMBDA f : f.kind = "frame")

\* the task of segment i has written its sentinel
SentinelWritten(i) == stask[i].status = "done"

\* the data frames the task of segment i has written
DataFramesOf(i) ==
    IF SentinelWritten(i)
    THEN SubSeq(FramesOf(i), 1, Len(FramesOf(i)) - 1)
    ELSE FramesOf(i)

\* C33: for a file, every data frame of a segment carries at least one byte
\* and at most min(chunk_size, what was left of the segment before it), so
\* none is the (0,0) sentinel; remaining is never below 0; and when the
\* source has not shrunk the plain_len values before the sentinel sum to the
\* segment's length
C33_SenderFrameInvariants ==
    (~snd.is_directory /\ snd.pc \notin {"idle", "start"}) =>
        \A i \in Streams :
            LET data == DataFramesOf(i)
            IN  /\ stask[i].remaining >= 0
                /\ \A j \in 1..Len(data) :
                      /\ data[j] # Sentinel
                      /\ data[j].plain_len >= 1
                      /\ data[j].plain_len <=
                            Min(ChunkSize,
                                snd.segments[i + 1].length
                                   - SumPlainLen(SubSeq(data, 1, j - 1)))
                /\ SentinelWritten(i) =>
                      /\ FramesOf(i)[Len(FramesOf(i))] = Sentinel
                      /\ snd.lost = 0 =>
                            SumPlainLen(data) = snd.segments[i + 1].length

\* a segment of more than one chunk was sent whole, sentinel included, from
\* a source that has not shrunk
C33_Witness ==
    /\ ~snd.is_directory
    /\ snd.lost = 0
    /\ \E i \in Streams :
          /\ SentinelWritten(i)
          /\ snd.segments[i + 1].length > ChunkSize
          /\ Len(DataFramesOf(i)) >= 2

\* C34: every file the receiver has created for an accepted header, whatever
\* its filename, lies inside download_dir
C34_FileInsideDownloadDir ==
    \A name \in Filenames :
        files[<<name, 0>>].exists => Within(DownloadBase, FilePath(name))

(***************************************************************************)
(* The planner alone: every file size and stream count, one call.          *)
(***************************************************************************)
InitPlan ==
    /\ planSize \in 0..MaxPlanSize
    /\ planCount \in 1..MaxStreams
    /\ planErr \in (0 - MaxFloatErr)..MaxFloatErr
    /\ planOut = <<>>
    /\ planDone = FALSE
    /\ InitReceiver
    /\ InitSenderIdle

CallBuildSegments ==
    /\ ~planDone
    /\ planOut' = BuildSegments(planSize, planCount, planErr)
    /\ planDone' = TRUE
    /\ UNCHANGED <<planSize, planCount, planErr>>
    /\ UNCHANGED <<recvVars, sndVars>>

NextPlan == CallBuildSegments

SpecPlan == InitPlan /\ [][NextPlan]_vars

\* segments tile [0, file_size): the first starts at 0, each starts where the
\* previous one ends, none is negative, and the last ends at file_size
Tiles(segs, file_size) ==
    /\ \A i \in 1..Len(segs) :
          /\ segs[i].length >= 0
          /\ segs[i].start = (IF i = 1 THEN 0
                              ELSE segs[i - 1].start + segs[i - 1].length)
    /\ SumLengths(segs) = file_size

\* C3: for every file size >= 0 and stream_count in 1..4, _build_segments
\* returns exactly stream_count segments that tile [0, file_size) without gap
\* or overlap and without a negative length.
C3_SegmentsTile ==
    planDone =>
        /\ Len(planOut) = planCount
        /\ Tiles(planOut, planSize)

C3_Witness ==
    /\ planDone
    /\ planCount = 4
    /\ planSize = 10
    /\ planErr = 0 - 1
    /\ planOut[4].length = 4
====
